---- MODULE Spec2Model ----
(***************************************************************************)
(* Model of the shrotdef storefront bot: the persistence layer (src/db.py)  *)
(* and the handlers of src/main.py that drive it.                           *)
(*                                                                          *)
(* Numbers that the program keeps as floats (prices, tonnes, kilograms,     *)
(* money) are kept here as integers counting hundredths, so 2.3 is 230.     *)
(* Texts that the program parses or formats (quantities, prices, totals)    *)
(* are sequences of one-character strings.                                  *)
(***************************************************************************)
EXTENDS Integers, Sequences, FiniteSets, TLC

VARIABLES
    booted,     \* main() has run init_db() on the database file
    now,        \* the clock read by datetime.utcnow()
    users,      \* table users:    row id -> row
    products,   \* table products: row id -> row
    orders,     \* table orders:   row id -> row
    fsm,        \* MemoryStorage: chat id -> current FSM state
    data,       \* MemoryStorage: chat id -> scratch data of the flow
    call,       \* chat id -> the db call its handler is in the middle of
    last,       \* the last return of an order-status db call, and the answer sent
    succeeded,  \* order id -> how many status calls returned updated=True
    media_group_buffer, \* the dict media_group_buffer: user id -> buffer entry
    tasks,      \* chat id -> handle_media_group_timeout tasks asleep, and sending
                \* their prompt; confirm_order tasks awaiting the edit of the
                \* reply markup, and awaiting the notifications
    prompts,    \* chat id -> media group id -> confirmation prompts sent for it
    delivered   \* the fan-outs of broadcast_confirm, one report each

vars == <<booted, now, users, products, orders, fsm, data, call, last, succeeded,
          media_group_buffer, tasks, prompts, delivered>>

Broadcasts == <<media_group_buffer, tasks, prompts, delivered>>

(* media_group_buffer = {} at import; the media group ids of the albums sent *)
EmptyBuffer == [k \in {} |-> 0]
MediaGroupIds == {1, 2}
NoTasks == [asleep |-> 0, sending |-> 0, editing |-> 0, notifying |-> 0]

----------------------------------------------------------------------------
(* Bounds of the model *)

MaxOrders == 1
MaxTime == 2

(* NULL of a text column, of an integer column, of a timestamp, of a price *)
NULL == "NULL"
NoId == 0
NoTime == 0
NoPrice == -1

ADMIN_LIST == {1, 2}
UserTgIds == {11, 12}
(* The chats that send events: the admins and one registered user *)
ChatIds == ADMIN_LIST \cup {11}
OrderIds == 1 .. MaxOrders
ProductIds == {1, 2}

is_admin(user_id) == user_id \in ADMIN_LIST

----------------------------------------------------------------------------
(* Texts *)

Digits == <<"0", "1", "2", "3", "4", "5", "6", "7", "8", "9">>
IsDigit(c) == \E i \in 1 .. 10 : Digits[i] = c
DigitVal(c) == (CHOOSE i \in 1 .. 10 : Digits[i] = c) - 1
AllDigits(s) == \A i \in 1 .. Len(s) : IsDigit(s[i])

RECURSIVE NatOf(_)
NatOf(s) ==
    IF s = <<>> THEN 0
    ELSE NatOf(SubSeq(s, 1, Len(s) - 1)) * 10 + DigitVal(s[Len(s)])

RECURSIVE NatText(_)
NatText(n) ==
    IF n < 10 THEN <<Digits[n + 1]>>
    ELSE NatText(n \div 10) \o <<Digits[(n % 10) + 1]>>

(* str.replace(",", ".") *)
ReplaceComma(s) == [i \in 1 .. Len(s) |-> IF s[i] = "," THEN "." ELSE s[i]]

(* The value, in hundredths, of the fraction digits f of a decimal literal *)
FracHundredths(f) ==
    IF Len(f) = 0 THEN 0
    ELSE IF Len(f) = 1 THEN DigitVal(f[1]) * 10
    ELSE DigitVal(f[1]) * 10 + DigitVal(f[2])

(* str.strip() over the blank this model's texts use *)
RECURSIVE LStrip(_)
LStrip(s) == IF s # <<>> /\ s[1] = " " THEN LStrip(Tail(s)) ELSE s
RECURSIVE RStrip(_)
RStrip(s) ==
    IF s # <<>> /\ s[Len(s)] = " " THEN RStrip(SubSeq(s, 1, Len(s) - 1)) ELSE s
Strip(s) == RStrip(LStrip(s))

(* str.lower() *)
UpperCase == <<"A", "B", "C", "D", "E", "F", "G", "H", "I", "J", "K", "L", "M",
               "N", "O", "P", "Q", "R", "S", "T", "U", "V", "W", "X", "Y", "Z">>
LowerCase == <<"a", "b", "c", "d", "e", "f", "g", "h", "i", "j", "k", "l", "m",
               "n", "o", "p", "q", "r", "s", "t", "u", "v", "w", "x", "y", "z">>
LowerChar(c) ==
    IF \E i \in 1 .. 26 : UpperCase[i] = c
    THEN LowerCase[CHOOSE i \in 1 .. 26 : UpperCase[i] = c]
    ELSE c
Lower(s) == [i \in 1 .. Len(s) |-> LowerChar(s[i])]

(* sub in s *)
Contains(s, sub) ==
    \E i \in 1 .. (Len(s) - Len(sub) + 1) : SubSeq(s, i, i + Len(sub) - 1) = sub

(* The end of the run of digits of s that starts at i *)
RECURSIVE DigitRunEnd(_, _)
DigitRunEnd(s, i) ==
    IF i < Len(s) /\ IsDigit(s[i + 1]) THEN DigitRunEnd(s, i + 1) ELSE i

NoFloat == [ok |-> FALSE, v |-> 0]

(* float(): a decimal literal with an optional sign; value in hundredths.
   The texts of this model carry at most two fraction digits. *)
ParseFloat(s) ==
    LET neg == s # <<>> /\ s[1] = "-"
        body == IF neg THEN Tail(s) ELSE s
        dots == {i \in 1 .. Len(body) : body[i] = "."}
        d == IF dots = {} THEN Len(body) + 1 ELSE CHOOSE i \in dots : TRUE
        ip == SubSeq(body, 1, d - 1)
        fp == SubSeq(body, d + 1, Len(body))
        mag == NatOf(ip) * 100 + FracHundredths(fp)
    IN  IF Cardinality(dots) <= 1 /\ AllDigits(ip) /\ AllDigits(fp)
           /\ Len(ip) + Len(fp) >= 1
        THEN [ok |-> TRUE, v |-> IF neg THEN 0 - mag ELSE mag]
        ELSE NoFloat

(* re: [0-9]+(?:[.,][0-9]+)? matched at position i of s; the end of the match *)
NumberMatchEnd(s, i) ==
    LET j == DigitRunEnd(s, i)
    IN  IF j + 2 <= Len(s) /\ s[j + 1] \in {".", ","} /\ IsDigit(s[j + 2])
        THEN DigitRunEnd(s, j + 2)
        ELSE j

parse_price(value) == ParseFloat(ReplaceComma(value))

parse_quantity_prefix(value) ==
    LET cleaned == Strip(value)
    IN  IF cleaned # <<>> /\ IsDigit(cleaned[1])
        THEN ParseFloat(ReplaceComma(SubSeq(cleaned, 1, NumberMatchEnd(cleaned, 1))))
        ELSE NoFloat
parse_quantity_to_tons(value) ==
    LET cleaned == Strip(value)
    IN  IF cleaned # <<>> /\ IsDigit(cleaned[1])
           /\ NumberMatchEnd(cleaned, 1) = Len(cleaned)
        THEN ParseFloat(ReplaceComma(cleaned))
        ELSE NoFloat

parse_quantity_as_kg(value) ==
    LET cleaned == Lower(Strip(value))
        starts == {i \in 1 .. Len(cleaned) : IsDigit(cleaned[i])}
    IN  IF starts = {} THEN NoFloat
        ELSE LET i == CHOOSE k \in starts : \A m \in starts : k <= m
             IN  ParseFloat(ReplaceComma(SubSeq(cleaned, i, NumberMatchEnd(cleaned, i))))
parse_quantity_to_kg(value) ==
    LET cleaned == Lower(Strip(value))
        starts == {i \in 1 .. Len(cleaned) : IsDigit(cleaned[i])}
    IN  IF starts = {} THEN NoFloat
        ELSE LET i == CHOOSE k \in starts : \A m \in starts : k <= m
                 number == ParseFloat(ReplaceComma(
                               SubSeq(cleaned, i, NumberMatchEnd(cleaned, i))))
             IN  IF Contains(cleaned, <<"t", "o", "n", "n", "a">>)
                    \/ Contains(cleaned, <<"t">>)
                 THEN [ok |-> TRUE, v |-> number.v * 1000]
                 ELSE number

(* f"{value:.2f}".rstrip("0").rstrip(".") of a non-negative value *)
FixedText(v) ==
    LET ip == NatText(v \div 100)
        f == v % 100
    IN  IF f = 0 THEN ip
        ELSE IF f % 10 = 0 THEN ip \o <<".", Digits[(f \div 10) + 1]>>
        ELSE ip \o <<".", Digits[(f \div 10) + 1], Digits[(f % 10) + 1]>>

SignText(v, t) == IF v < 0 THEN <<"-">> \o t ELSE t
Abs(v) == IF v < 0 THEN 0 - v ELSE v

NotEntered == <<"K", "i", "r", "i", "t", "i", "l", "m", "a", "g", "a", "n">>
CannotCompute == <<"H", "i", "s", "o", "b", "l", "a", "b", " ", "b", "o", "'", "l", "m", "a", "d", "i">>
Tonna == <<" ", "t", "o", "n", "n", "a">>
Sum == <<" ", "s", "u", "m">>

format_price(value) ==
    IF value = NoPrice THEN NotEntered ELSE SignText(value, FixedText(Abs(value)))

(* f"{n:,}": the digits t grouped in threes *)
RECURSIVE Grouped(_)
Grouped(t) ==
    IF Len(t) <= 3 THEN t
    ELSE Grouped(SubSeq(t, 1, Len(t) - 3)) \o <<",">> \o SubSeq(t, Len(t) - 2, Len(t))

(* The fraction part of a formatted number, with its point; <<>> when none *)
FracPart(t) ==
    LET dots == {i \in 1 .. Len(t) : t[i] = "."}
    IN  IF dots = {} THEN <<>> ELSE SubSeq(t, CHOOSE i \in dots : TRUE, Len(t))

format_money_with_commas(value) ==
    IF value = NoPrice THEN NotEntered
    ELSE LET a == Abs(value)
         IN  SignText(value, Grouped(NatText(a \div 100)) \o FracPart(FixedText(a)))

(* value * price of two numbers in hundredths, rounded to hundredths *)
Times(a, b) == ((a * b) + 50) \div 100

format_deal_price(quantity, price_per_kg) ==
    IF price_per_kg = NoPrice THEN CannotCompute
    ELSE LET qty_kg == parse_quantity_to_kg(quantity)
         IN  IF ~qty_kg.ok THEN CannotCompute
             ELSE format_money_with_commas(Times(qty_kg.v, price_per_kg)) \o Sum

(* format_order_message: order["order_price_per_kg"] or order["product_price_per_kg"];
   None and 0.0 are both false *)
PriceOf(order) ==
    IF order.order_price_per_kg # NoPrice /\ order.order_price_per_kg # 0
    THEN order.order_price_per_kg
    ELSE order.product_price_per_kg

(* format_order_message: the text after "Jami: " *)
format_order_message(order) == format_deal_price(order.quantity, PriceOf(order))

----------------------------------------------------------------------------
(* The persistence layer, src/db.py *)

(* Middlewares of the dispatcher *)
get_user_by_tg_id(tg_id) == {u \in DOMAIN users : users[u].tg_id = tg_id}
is_user_blocked(tg_id) == \E u \in get_user_by_tg_id(tg_id) : users[u].is_blocked
BlockedUserMiddlewareOff(tg_id) == TRUE
BlockedUserMiddleware(tg_id) == is_admin(tg_id) \/ ~is_user_blocked(tg_id)

(* cur.lastrowid of an INSERT into a table with the rows ids *)
LastRowId(ids) == IF ids = {} THEN 1 ELSE (CHOOSE m \in ids : \A k \in ids : k <= m) + 1

(* What a status call returns: (updated, status, closed_by, canceled_by_role) *)
Returned(fn, order_id, updated, status, closed_by, canceled_by_role) ==
    [fn |-> fn, order_id |-> order_id, updated |-> updated, status |-> status,
     closed_by |-> closed_by, canceled_by_role |-> canceled_by_role]
NoReturn == Returned("-", 0, FALSE, NULL, NoId, NULL)

(* The handler op of chat from_user got r from the db and answered text *)
Answered(op, from_user, r, text) == [op |-> op, chat |-> from_user, r |-> r, text |-> text]

Idle == [pc |-> "idle", fn |-> "-", order_id |-> 0, new_status |-> NULL,
         user_id |-> NoId, now |-> NoTime]

(* update_order_status: the early return on a row that is not open *)
NotOpenNever(row) == FALSE
NotOpen(row) == row.status # "open"

(* cancel_order_by_user: the early return on a row that is not open *)
OwnNotOpen(row) == row.status # "open"

(* update_order_status: AND status = 'open' of the UPDATE *)
WhereOpenDropped(row) == TRUE
WhereOpen(row) == row.status = "open"

(* cancel_order_by_user: WHERE id = ? AND user_id = ? of the SELECT *)
OwnRowOrNot(order_id, user_id) == order_id \in DOMAIN orders
OwnRow(order_id, user_id) ==
    order_id \in DOMAIN orders /\ orders[order_id].user_id = user_id

(* cancel_order_by_user: AND user_id = ? AND status = 'open' of the UPDATE *)
WhereOwnOpen(row, user_id) == row.user_id = user_id /\ row.status = "open"

(* update_order_status: the SET clause of the UPDATE *)
SetStatusOnly(row, new_status, at, admin_id) ==
    [row EXCEPT !.status = new_status, !.closed_at = at]
SetStatus(row, new_status, at, admin_id) ==
    [row EXCEPT !.status = new_status, !.closed_at = at, !.closed_by = admin_id,
                !.canceled_by_role = IF new_status = "canceled" THEN "admin" ELSE NULL]

(* cancel_order_by_user: the SET clause of the UPDATE *)
SetCanceledKeepsCloser(row, at) ==
    [row EXCEPT !.status = "canceled", !.closed_at = at, !.canceled_by_role = "user",
                !.closed_by = row.user_id]
SetCanceledByUser(row, at) ==
    [row EXCEPT !.status = "canceled", !.closed_at = at, !.closed_by = NoId,
                !.canceled_by_role = "user"]

(* The acknowledgements of the status handlers *)
AckNone == ""
AckClosed == "Zayavka qabul qilindi va yopildi"
AckCustomerCanceled == "Mijoz buyurtmani bekor qilgan."
AckAlreadyCanceled == "Status allaqachon bekor qilingan."
AckOtherAdminClosed == "Boshqa admin allaqachon statusni yopgan."
AckAlreadyClosed == "Status allaqachon yopilgan."
AckOtherAdminCanceled == "Boshqa admin allaqachon bekor qilgan."
AckCanceled == "Zayavka bekor qilindi"
AckUserNotFound == "Foydalanuvchi topilmadi."
AckAlreadyAccepted == "Buyurtma allaqachon qabul qilingan."
AckOrderAlreadyCanceled == "Buyurtma allaqachon bekor qilingan."
AckOrderNotFound == "Buyurtma topilmadi."
AckOrderCanceled == "Buyurtma bekor qilindi"

(* close_order_status: the answer to the callback, from the db call's return *)
CloseAckSwapped(r, from_user) ==
    IF r.updated THEN AckClosed
    ELSE IF r.status = "canceled"
         THEN IF r.canceled_by_role = "user" THEN AckCustomerCanceled
              ELSE AckAlreadyCanceled
         ELSE IF r.closed_by # NoId /\ r.closed_by = from_user
              THEN AckOtherAdminClosed
              ELSE AckAlreadyClosed
CloseAck(r, from_user) ==
    IF r.updated THEN AckClosed
    ELSE IF r.status = "canceled"
         THEN IF r.canceled_by_role = "user" THEN AckCustomerCanceled
              ELSE AckAlreadyCanceled
         ELSE IF r.closed_by # NoId /\ r.closed_by # from_user
              THEN AckOtherAdminClosed
              ELSE AckAlreadyClosed

(* cancel_order_status: the answer to the callback *)
CancelAck(r, from_user) ==
    IF r.updated THEN AckCanceled
    ELSE IF r.status = "closed" THEN AckAlreadyClosed
    ELSE IF r.status = "canceled" /\ r.canceled_by_role = "user" THEN AckCustomerCanceled
    ELSE IF r.closed_by # NoId /\ r.closed_by # from_user THEN AckOtherAdminCanceled
    ELSE AckAlreadyCanceled

(* confirm_user_cancel_order: the answer to the callback *)
UserCancelAck(r) ==
    IF r.updated THEN AckOrderCanceled
    ELSE IF r.status = "closed" THEN AckAlreadyAccepted
    ELSE IF r.status = "canceled" THEN AckOrderAlreadyCanceled
    ELSE AckOrderNotFound

AdminAck(new_status, r, from_user) ==
    IF new_status = "closed" THEN CloseAck(r, from_user) ELSE CancelAck(r, from_user)

(* The rows the program inserts *)

(* add_order: the row of the INSERT *)
OpenOrder(user_id, product_id, quantity, order_price_per_kg, at) ==
    [user_id |-> user_id, product_id |-> product_id, quantity |-> quantity,
     created_at |-> at, status |-> "open", order_price_per_kg |-> order_price_per_kg,
     closed_at |-> NoTime, closed_by |-> NoId, canceled_by_role |-> NULL]

(* A phone column that is NULL; the program tests it by truth, as it would
   an empty text, and normalizes it as one (row["phone"] or "") *)
NoPhone == <<>>

(* add_or_update_user and update_user_phone: the row of a registered user *)
RegisteredUser(tg_id, phone) == [tg_id |-> tg_id, phone |-> phone, is_blocked |-> FALSE]

(* add_product: the row of the INSERT *)
Product(name, price_per_kg) ==
    [name |-> name, price_per_kg |-> price_per_kg, is_deleted |-> FALSE]

TwoTonna == <<"2">> \o Tonna


(* add_admin_order: the row of the INSERT *)
ClosedOrderLeftOpen(user_id, product_id, quantity, order_price_per_kg, at, admin_id) ==
    [user_id |-> user_id, product_id |-> product_id, quantity |-> quantity,
     created_at |-> at, status |-> "open", order_price_per_kg |-> order_price_per_kg,
     closed_at |-> NoTime, closed_by |-> NoId, canceled_by_role |-> NULL]
ClosedOrder(user_id, product_id, quantity, order_price_per_kg, at, admin_id) ==
    [user_id |-> user_id, product_id |-> product_id, quantity |-> quantity,
     created_at |-> at, status |-> "closed", order_price_per_kg |-> order_price_per_kg,
     closed_at |-> at, closed_by |-> admin_id, canceled_by_role |-> NULL]

(* add_manual_user, with the UNIQUE constraint on users.tg_id left out *)
ManualTgIdUnchecked(at, admin_id) == 0 - (at * 1000) * 1000 - admin_id

(* add_manual_user: the first of the five candidate ids no user row holds;
   0 when all five are taken and the function raises *)
ManualTgId(at, admin_id) ==
    LET base_id == 0 - (at * 1000) * 1000 - admin_id
        taken == {users[u].tg_id : u \in DOMAIN users}
        free == {k \in 0 .. 4 : (base_id - k) \notin taken}
    IN  IF free = {} THEN 0
        ELSE base_id - (CHOOSE k \in free : \A m \in free : k <= m)

(* The registered users and the catalogue the flows of this model start from *)
InitUsers == [u \in 1 .. 2 |-> RegisteredUser(10 + u, <<"9", "0", Digits[u + 1]>>)]
InitProducts == [p \in {1} |-> Product(<<"s", "h", "r", "o", "t">>, 1000)]

(* product["price_per_kg"] of the row get_product returned to the handler *)
FirstPrice(product_id) == InitProducts[product_id].price_per_kg
ProductPrice(product_id) == products[product_id].price_per_kg

(* get_product: the row, when it exists and is not deleted *)
get_product_deleted_too(product_id) == {p \in DOMAIN products : p = product_id}
get_product(product_id) ==
    {p \in DOMAIN products : p = product_id /\ ~products[p].is_deleted}

(* list_products *)
list_products == {p \in DOMAIN products : ~products[p].is_deleted}

(* get_order_with_details: the order joined with its user and its product *)
get_order_with_details(order_id) ==
    {[id |-> o, quantity |-> orders[o].quantity,
      order_price_per_kg |-> orders[o].order_price_per_kg,
      product_name |-> products[orders[o].product_id].name,
      product_price_per_kg |-> products[orders[o].product_id].price_per_kg]
        : o \in {k \in DOMAIN orders : k = order_id /\ orders[k].user_id \in DOMAIN users
                                          /\ orders[k].product_id \in DOMAIN products}}

(* list_orders_for_user: the orders of a user joined with their products *)
list_orders_for_user(user_id) ==
    {[id |-> o, quantity |-> orders[o].quantity,
      order_price_per_kg |-> orders[o].order_price_per_kg,
      product_name |-> products[orders[o].product_id].name,
      product_price_per_kg |-> products[orders[o].product_id].price_per_kg]
        : o \in {k \in DOMAIN orders : orders[k].user_id = user_id
                                          /\ orders[k].product_id \in DOMAIN products}}

(* list_orders_with_details(): every order joined with its user and product *)
list_orders_with_details == UNION {get_order_with_details(o) : o \in DOMAIN orders}

(* delete_product: UPDATE products SET is_deleted = 1 WHERE id = ? *)
delete_product_row(product_id) == [p \in DOMAIN products \ {product_id} |-> products[p]]
delete_product(product_id) == [products EXCEPT ![product_id].is_deleted = TRUE]

(* init_db: the backfill of the frozen price, WHERE order_price_per_kg IS NULL *)
PriceMissingOrNot(row) == TRUE
PriceMissing(row) == row.order_price_per_kg = NoPrice

(* init_db: CASE WHEN closed_by IS NULL THEN 'user' ELSE 'admin' END *)
InferredRoleUser(row) == "user"
InferredRole(row) == IF row.closed_by = NoId THEN "user" ELSE "admin"

(* init_db: the three UPDATEs that follow the migrations, on one row *)
Backfilled(row) ==
    LET r1 == IF row.status = NULL THEN [row EXCEPT !.status = "open"] ELSE row
        r2 == IF PriceMissing(r1)
              THEN [r1 EXCEPT !.order_price_per_kg =
                       IF r1.product_id \in DOMAIN products
                       THEN products[r1.product_id].price_per_kg ELSE NoPrice]
              ELSE r1
    IN  IF r2.status = "canceled" /\ r2.canceled_by_role = NULL
        THEN [r2 EXCEPT !.canceled_by_role = InferredRole(r2)]
        ELSE r2

init_db == [o \in DOMAIN orders |-> Backfilled(orders[o])]

----------------------------------------------------------------------------
(* The conversation flows: MemoryStorage and the texts users send *)

EmptyData == [k \in {} |-> 0]
Put(d, new) == new @@ d
Has(d, k) == k \in DOMAIN d

BTN_CANCEL == <<"B", "e", "k", "o", "r">>
NoText == <<>>
is_cancel_message(text) == text # NoText /\ Strip(text) = BTN_CANCEL

(* state.clear() *)
Clear(c) ==
    /\ fsm' = [fsm EXCEPT ![c] = "idle"]
    /\ data' = [data EXCEPT ![c] = EmptyData]

(* state.update_data(...) and state.set_state(...) *)
Advance(c, new, state) ==
    /\ fsm' = [fsm EXCEPT ![c] = state]
    /\ data' = [data EXCEPT ![c] = Put(@, new)]

(* A message or callback reaches a handler of an idle chat's dispatcher *)
Reaches(c) == booted /\ BlockedUserMiddleware(c) /\ call[c].pc = "idle"

QuantityTexts == {<<"2", ",", "3">>, <<"1">>, <<"2", "t">>, BTN_CANCEL}
AddressTexts == {<<"U", "y">>, NoText, BTN_CANCEL}
PriceTexts == {<<"0">>, <<"1", ",", "5">>, <<"1", "x">>, BTN_CANCEL}
NameTexts == {<<"k", "u", "n", "j", "a", "r", "a">>}
PhoneTexts == {<<"9", "0", "1">>, <<"7", "7">>, <<"x">>, BTN_CANCEL}
Fields == {"price", "delete"}

(* normalize_phone *)
normalize_phone(value) ==
    LET digits == SelectSeq(value, IsDigit)
    IN  IF Len(digits) >= 12 /\ SubSeq(digits, 1, 3) = <<"9", "9", "8">>
        THEN SubSeq(digits, Len(digits) - 8, Len(digits))
        ELSE digits

(* find_user_by_phone: the rows whose phone normalizes to the same digits *)
find_user_by_phone(value) ==
    IF normalize_phone(value) = <<>> THEN {}
    ELSE {u \in DOMAIN users :
             normalize_phone(users[u].phone)
                 = normalize_phone(value)}

(* The first row of a query result *)
First(rows) == CHOOSE r \in rows : \A q \in rows : r <= q

----------------------------------------------------------------------------
(* The order-status handlers.  A handler is two steps where its db call is
   two statements: the SELECT, and the conditional UPDATE with the return.
   Every db call opens a connection of its own, and sqlite3 begins the
   transaction at the UPDATE, not at the SELECT: the statements of another
   connection to the same database file can run between the two. *)

Answer(op, from_user, r, text) == last' = Answered(op, from_user, r, text)

(* close_order_status, cancel_order_status up to the SELECT of update_order_status *)
HandlerOf(new_status) ==
    IF new_status = "closed" THEN "close_order_status" ELSE "cancel_order_status"

AdminStatusCallback(from_user, order_id, new_status) ==
    /\ booted
    /\ call[from_user].pc = "idle"
    /\ BlockedUserMiddleware(from_user)
    /\ IF ~is_admin(from_user)
       THEN /\ Answer(HandlerOf(new_status), from_user, NoReturn, AckNone)
            /\ UNCHANGED call
       ELSE IF order_id \notin DOMAIN orders
       THEN LET r == Returned("update_order_status", order_id, FALSE, NULL, NoId, NULL)
            IN  /\ Answer(HandlerOf(new_status), from_user, r, AdminAck(new_status, r, from_user))
                /\ UNCHANGED call
       ELSE IF NotOpen(orders[order_id])
       THEN LET row == orders[order_id]
                r == Returned("update_order_status", order_id, FALSE, row.status,
                              row.closed_by, row.canceled_by_role)
            IN  /\ Answer(HandlerOf(new_status), from_user, r, AdminAck(new_status, r, from_user))
                /\ UNCHANGED call
       ELSE /\ call' = [call EXCEPT ![from_user] =
                           [pc |-> "update", fn |-> "update_order_status",
                            order_id |-> order_id, new_status |-> new_status,
                            user_id |-> NoId, now |-> now]]
            /\ UNCHANGED last
    /\ UNCHANGED <<booted, now, users, products, orders, fsm, data, succeeded>>
    /\ UNCHANGED Broadcasts

close_order_status(from_user, order_id) ==
    AdminStatusCallback(from_user, order_id, "closed")

cancel_order_status(from_user, order_id) ==
    AdminStatusCallback(from_user, order_id, "canceled")

(* update_order_status from its UPDATE on, and the handler's answer *)
update_order_status(from_user) ==
    /\ call[from_user].pc = "update"
    /\ call[from_user].fn = "update_order_status"
    /\ LET c == call[from_user]
           o == c.order_id
           r == Returned("update_order_status", o, TRUE, c.new_status, from_user,
                         IF c.new_status = "canceled" THEN "admin" ELSE NULL)
       IN  /\ orders' = IF o \in DOMAIN orders /\ WhereOpen(orders[o])
                        THEN [orders EXCEPT ![o] = SetStatus(@, c.new_status, c.now, from_user)]
                        ELSE orders
           /\ Answer(HandlerOf(c.new_status), from_user, r, AdminAck(c.new_status, r, from_user))
           /\ succeeded' = [succeeded EXCEPT ![o] = @ + 1]
    /\ call' = [call EXCEPT ![from_user] = Idle]
    /\ UNCHANGED <<booted, now, users, products, fsm, data>>
    /\ UNCHANGED Broadcasts

(* confirm_user_cancel_order up to the SELECT of cancel_order_by_user *)
confirm_user_cancel_order(from_user, order_id) ==
    /\ booted
    /\ call[from_user].pc = "idle"
    /\ BlockedUserMiddleware(from_user)
    /\ IF get_user_by_tg_id(from_user) = {}
       THEN /\ Answer("confirm_user_cancel_order", from_user, NoReturn, AckUserNotFound)
            /\ UNCHANGED call
       ELSE LET user_id == CHOOSE u \in get_user_by_tg_id(from_user) : TRUE
            IN  IF ~OwnRow(order_id, user_id)
                THEN LET r == Returned("cancel_order_by_user", order_id, FALSE, NULL, NoId, NULL)
                     IN  /\ Answer("confirm_user_cancel_order", from_user, r, UserCancelAck(r))
                         /\ UNCHANGED call
                ELSE IF OwnNotOpen(orders[order_id])
                THEN LET r == Returned("cancel_order_by_user", order_id, FALSE,
                                       orders[order_id].status, NoId,
                                       orders[order_id].canceled_by_role)
                     IN  /\ Answer("confirm_user_cancel_order", from_user, r, UserCancelAck(r))
                         /\ UNCHANGED call
                ELSE /\ call' = [call EXCEPT ![from_user] =
                                    [pc |-> "update", fn |-> "cancel_order_by_user",
                                     order_id |-> order_id, new_status |-> "canceled",
                                     user_id |-> user_id, now |-> now]]
                     /\ UNCHANGED last
    /\ UNCHANGED <<booted, now, users, products, orders, fsm, data, succeeded>>
    /\ UNCHANGED Broadcasts

(* cancel_order_by_user from its UPDATE on, and the handler's answer *)
cancel_order_by_user(from_user) ==
    /\ call[from_user].pc = "update"
    /\ call[from_user].fn = "cancel_order_by_user"
    /\ LET c == call[from_user]
           o == c.order_id
           r == Returned("cancel_order_by_user", o, TRUE, "canceled", NoId, "user")
       IN  /\ orders' = IF o \in DOMAIN orders /\ WhereOwnOpen(orders[o], c.user_id)
                        THEN [orders EXCEPT ![o] = SetCanceledByUser(@, c.now)]
                        ELSE orders
           /\ Answer("confirm_user_cancel_order", from_user, r, UserCancelAck(r))
           /\ succeeded' = [succeeded EXCEPT ![o] = @ + 1]
    /\ call' = [call EXCEPT ![from_user] = Idle]
    /\ UNCHANGED <<booted, now, users, products, fsm, data>>
    /\ UNCHANGED Broadcasts

(* Time passes between two readings of datetime.utcnow() *)
Tick ==
    /\ now < MaxTime
    /\ now' = now + 1
    /\ UNCHANGED <<booted, users, products, orders, fsm, data, call, last, succeeded>>
    /\ UNCHANGED Broadcasts

----------------------------------------------------------------------------
(* The user order flow *)

Rest == <<booted, now, call, last, succeeded, media_group_buffer, tasks, prompts, delivered>>

(* order_start: callback order:<product_id> *)
order_start(c, product_id) ==
    /\ Reaches(c)
    /\ Advance(c, [product_id |-> product_id], "OrderStates:quantity")
    /\ UNCHANGED <<users, products, orders, Rest>>

(* order_quantity: qty_tons < 2 *)
BelowNothing(qty_tons) == qty_tons <= 0
BelowMinimum(qty_tons) == qty_tons < 200

(* order_quantity: a message in OrderStates.quantity *)
order_quantity(c, text) ==
    /\ Reaches(c)
    /\ fsm[c] = "OrderStates:quantity"
    /\ LET qty_tons == parse_quantity_to_tons(text)
       IN  IF is_cancel_message(text) THEN Clear(c)
           ELSE IF ~qty_tons.ok \/ BelowMinimum(qty_tons.v) THEN UNCHANGED <<fsm, data>>
           ELSE Advance(c, [quantity |-> format_price(qty_tons.v) \o Tonna],
                        "OrderStates:address")
    /\ UNCHANGED <<users, products, orders, Rest>>

(* send_order_confirmation, on the scratch data d of chat c *)
send_order_confirmation(c, d) ==
    IF \/ get_user_by_tg_id(c) = {}
       \/ get_product(d.product_id) = {}
       \/ d.address = NoText
    THEN Clear(c)
    ELSE /\ fsm' = [fsm EXCEPT ![c] = "OrderStates:confirm"]
         /\ data' = [data EXCEPT ![c] = d]

(* order_address: a text message in OrderStates.address *)
order_address(c, text) ==
    /\ Reaches(c)
    /\ fsm[c] = "OrderStates:address"
    /\ IF is_cancel_message(text) THEN Clear(c)
       ELSE send_order_confirmation(c, Put(data[c], [address |-> text]))
    /\ UNCHANGED <<users, products, orders, Rest>>

(* The answers of the reverse-geocoding service: a display name, a payload
   without one, an empty one, and a lookup that raises or times out *)
PLACEHOLDER == <<"L", "o", "k">>
GeocodeAnswers ==
    {[raises |-> FALSE, display_name |-> <<"T", "o", "s", "h">>],
     [raises |-> FALSE, display_name |-> NoText],
     [raises |-> TRUE, display_name |-> NoText]}
Locations == {[latitude |-> 41, longitude |-> 69], [latitude |-> 0, longitude |-> 0]}

(* reverse_geocode: None when the lookup raises *)
reverse_geocode(answer) ==
    IF answer.raises THEN NoText ELSE answer.display_name

(* order_address_location: if not address_text *)
AddressAsFound(address_text) == address_text
AddressOrPlaceholder(address_text) ==
    IF address_text = NoText THEN PLACEHOLDER ELSE address_text

(* order_address_location: a location message in OrderStates.address *)
order_address_location(c, answer, location) ==
    /\ Reaches(c)
    /\ fsm[c] = "OrderStates:address"
    /\ LET address_text == AddressOrPlaceholder(reverse_geocode(answer))
       IN  send_order_confirmation(c,
               Put(data[c], [address |-> address_text,
                             latitude |-> location.latitude,
                             longitude |-> location.longitude]))
    /\ UNCHANGED <<users, products, orders, Rest>>

(* confirm_order and finalize_order: callback order_confirm *)
confirm_order(c) ==
    /\ Reaches(c)
    /\ IF fsm[c] # "OrderStates:confirm"
       THEN UNCHANGED <<fsm, data, orders>>
       ELSE IF \/ get_user_by_tg_id(c) = {}
               \/ get_product(data[c].product_id) = {}
               \/ data[c].address = NoText
       THEN Clear(c) /\ UNCHANGED orders
       ELSE /\ Cardinality(DOMAIN orders) < MaxOrders
            /\ orders' = orders @@
                  (LastRowId(DOMAIN orders) :>
                      OpenOrder(First(get_user_by_tg_id(c)), data[c].product_id,
                                data[c].quantity,
                                ProductPrice(data[c].product_id), now))
            /\ Clear(c)
    /\ UNCHANGED <<users, products, Rest>>

(* cancel_order: callback order_cancel *)
cancel_order(c) ==
    /\ Reaches(c)
    /\ Clear(c)
    /\ UNCHANGED <<users, products, orders, Rest>>

----------------------------------------------------------------------------
(* The product edit flow *)

(* edit_product_start: callback edit:<product_id> *)
edit_product_start(c, product_id) ==
    /\ Reaches(c)
    /\ Advance(c, [product_id |-> product_id], "EditProductStates:field")
    /\ UNCHANGED <<users, products, orders, Rest>>

(* edit_product_cancel: a message in EditProductStates.field *)
edit_product_cancel(c, text) ==
    /\ Reaches(c)
    /\ fsm[c] = "EditProductStates:field"
    /\ IF is_cancel_message(text) THEN Clear(c) ELSE UNCHANGED <<fsm, data>>
    /\ UNCHANGED <<users, products, orders, Rest>>

(* edit_product_field: callback field:<field> in EditProductStates.field *)
edit_product_field(c, field) ==
    /\ Reaches(c)
    /\ fsm[c] = "EditProductStates:field"
    /\ IF field = "delete" THEN UNCHANGED <<fsm, data>>
       ELSE Advance(c, [field |-> field],
                    IF field = "photos" THEN "EditProductStates:photos"
                    ELSE "EditProductStates:value")
    /\ UNCHANGED <<users, products, orders, Rest>>

(* UPDATE products SET <column> = ? WHERE id = ? *)
update_product_name(product_id, name) ==
    IF product_id \in DOMAIN products
    THEN [products EXCEPT ![product_id].name = name] ELSE products

update_product_price(product_id, price_per_kg) ==
    IF product_id \in DOMAIN products
    THEN [products EXCEPT ![product_id].price_per_kg = price_per_kg] ELSE products

(* edit_product_value: a message in EditProductStates.value *)
edit_product_value(c, text) ==
    /\ Reaches(c)
    /\ fsm[c] = "EditProductStates:value"
    /\ LET price == parse_price(text)
       IN  IF is_cancel_message(text) THEN Clear(c) /\ UNCHANGED products
           ELSE IF data[c].field = "price" /\ ~price.ok
           THEN UNCHANGED <<fsm, data, products>>
           ELSE /\ products' =
                      IF data[c].field = "name"
                      THEN update_product_name(data[c].product_id, text)
                      ELSE IF data[c].field = "price"
                      THEN update_product_price(data[c].product_id, price.v)
                      ELSE products
                /\ Clear(c)
    /\ UNCHANGED <<users, orders, Rest>>

(* confirm_product_delete and delete_product: callback product_delete:confirm:<id> *)
confirm_product_delete(c, product_id) ==
    /\ Reaches(c)
    /\ IF ~is_admin(c) \/ get_product(product_id) = {}
       THEN UNCHANGED <<fsm, data, products>>
       ELSE /\ products' = delete_product(product_id)
            /\ Clear(c)
    /\ UNCHANGED <<users, orders, Rest>>

(* update_product: the combined UPDATE of the db layer *)
update_product(product_id, name, price_per_kg) ==
    /\ booted
    /\ product_id \in DOMAIN products
    /\ products' = [products EXCEPT ![product_id].name = name,
                                    ![product_id].price_per_kg = price_per_kg]
    /\ UNCHANGED <<users, orders, fsm, data, Rest>>

----------------------------------------------------------------------------
(* The admin-assisted order flow *)

BTN_CREATE_ORDER == <<"B", "u", "y", "u", "r", "t", "m", "a">>

(* cancel_admin_action *)
cancel_admin_action(c) == Clear(c)

(* start_admin_order: the message BTN_CREATE_ORDER *)
start_admin_order(c) ==
    /\ Reaches(c)
    /\ IF ~is_admin(c) THEN UNCHANGED <<fsm, data>>
       ELSE /\ fsm' = [fsm EXCEPT ![c] = "AdminOrderStates:phone"]
            /\ data' = [data EXCEPT ![c] = EmptyData]
    /\ UNCHANGED <<users, products, orders, Rest>>

(* admin_order_phone: a message in AdminOrderStates.phone *)
admin_order_phone(c, text) ==
    /\ Reaches(c)
    /\ fsm[c] = "AdminOrderStates:phone"
    /\ LET phone == Strip(text)
           found == find_user_by_phone(phone)
       IN  IF is_cancel_message(text) THEN cancel_admin_action(c)
           ELSE IF normalize_phone(phone) = <<>> THEN UNCHANGED <<fsm, data>>
           ELSE IF found # {}
           THEN LET user == First(found)
                IN  Advance(c, [user_id |-> user,
                                client_tg_id |-> users[user].tg_id,
                                client_phone |-> IF users[user].phone = NULL
                                                 THEN phone ELSE users[user].phone],
                            "AdminOrderStates:address")
           ELSE Advance(c, [client_phone |-> phone], "AdminOrderStates:name")
    /\ UNCHANGED <<users, products, orders, Rest>>

(* admin_order_name: a message in AdminOrderStates.name *)
admin_order_name(c, text) ==
    /\ Reaches(c)
    /\ fsm[c] = "AdminOrderStates:name"
    /\ IF is_cancel_message(text) THEN cancel_admin_action(c)
       ELSE IF Strip(text) = <<>> THEN UNCHANGED <<fsm, data>>
       ELSE Advance(c, [client_name |-> Strip(text)], "AdminOrderStates:address")
    /\ UNCHANGED <<users, products, orders, Rest>>

(* admin_order_address: a message in AdminOrderStates.address *)
admin_order_address(c, text) ==
    /\ Reaches(c)
    /\ fsm[c] = "AdminOrderStates:address"
    /\ IF is_cancel_message(text) THEN cancel_admin_action(c)
       ELSE IF Strip(text) = <<>> THEN UNCHANGED <<fsm, data>>
       ELSE IF list_products = {} THEN Clear(c)
       ELSE Advance(c, [address |-> Strip(text)], "AdminOrderStates:product")
    /\ UNCHANGED <<users, products, orders, Rest>>

(* admin_order_product_text: a message in AdminOrderStates.product *)
admin_order_product_text(c, text) ==
    /\ Reaches(c)
    /\ fsm[c] = "AdminOrderStates:product"
    /\ IF is_cancel_message(text) THEN cancel_admin_action(c) ELSE UNCHANGED <<fsm, data>>
    /\ UNCHANGED <<users, products, orders, Rest>>

(* admin_order_product: callback admin_order_product:<product_id> *)
admin_order_product(c, product_id) ==
    /\ Reaches(c)
    /\ IF fsm[c] # "AdminOrderStates:product" \/ get_product(product_id) = {}
       THEN UNCHANGED <<fsm, data>>
       ELSE Advance(c, [product_id |-> product_id], "AdminOrderStates:quantity")
    /\ UNCHANGED <<users, products, orders, Rest>>

(* admin_order_quantity and send_admin_order_confirmation:
   a message in AdminOrderStates.quantity *)
admin_order_quantity(c, text) ==
    /\ Reaches(c)
    /\ fsm[c] = "AdminOrderStates:quantity"
    /\ LET qty_tons == parse_quantity_to_tons(text)
       IN  IF is_cancel_message(text) THEN cancel_admin_action(c)
           ELSE IF ~qty_tons.ok \/ qty_tons.v <= 0 THEN UNCHANGED <<fsm, data>>
           ELSE IF get_product(data[c].product_id) = {} THEN Clear(c)
           ELSE Advance(c, [quantity |-> format_price(qty_tons.v) \o Tonna],
                        "AdminOrderStates:confirm")
    /\ UNCHANGED <<users, products, orders, Rest>>

(* add_manual_user: the row of the INSERT *)
ManualUser(tg_id, phone) == [tg_id |-> tg_id, phone |-> phone, is_blocked |-> FALSE]

(* confirm_admin_order: callback admin_order_confirm *)
confirm_admin_order(c) ==
    /\ Reaches(c)
    /\ IF fsm[c] # "AdminOrderStates:confirm"
       THEN UNCHANGED <<fsm, data, users, orders>>
       ELSE IF get_product(data[c].product_id) = {}
       THEN Clear(c) /\ UNCHANGED <<users, orders>>
       ELSE IF ~Has(data[c], "user_id") /\ ManualTgId(now, c) = 0
       THEN UNCHANGED <<fsm, data, users, orders>>
       ELSE LET manual == ~Has(data[c], "user_id")
                user_id == IF manual THEN LastRowId(DOMAIN users) ELSE data[c].user_id
            IN  /\ Cardinality(DOMAIN orders) < MaxOrders
                /\ users' = IF manual
                            THEN users @@ (user_id :>
                                     ManualUser(ManualTgId(now, c), data[c].client_phone))
                            ELSE users
                /\ orders' = orders @@
                      (LastRowId(DOMAIN orders) :>
                          ClosedOrder(user_id, data[c].product_id, data[c].quantity,
                                      ProductPrice(data[c].product_id), now, c))
                /\ Clear(c)
    /\ UNCHANGED <<products, Rest>>

(* cancel_admin_order: callback admin_order_cancel *)
cancel_admin_order(c) ==
    /\ Reaches(c)
    /\ Clear(c)
    /\ UNCHANGED <<users, products, orders, Rest>>

----------------------------------------------------------------------------
(* Registration *)

ContactTexts == {<<"9", "0", "3">>}

(* add_or_update_user: the row of the INSERT; the phone column is left NULL *)
NewUser(tg_id) == [tg_id |-> tg_id, phone |-> NoPhone, is_blocked |-> FALSE]

(* start: the /start command, in any state *)
start(c) ==
    /\ Reaches(c)
    /\ users' = IF get_user_by_tg_id(c) = {}
                THEN users @@ (LastRowId(DOMAIN users) :> NewUser(c))
                ELSE users
    /\ UNCHANGED <<fsm, data, products, orders, Rest>>

(* handle_contact and update_user_phone: the user shares their own contact *)
handle_contact(c, phone) ==
    /\ Reaches(c)
    /\ users' = [u \in DOMAIN users |->
                    IF users[u].tg_id = c THEN [users[u] EXCEPT !.phone = phone]
                    ELSE users[u]]
    /\ UNCHANGED <<fsm, data, products, orders, Rest>>

(* ensure_user_registered: a users row with a phone *)
ensure_user_registered(c) ==
    \E u \in get_user_by_tg_id(c) : users[u].phone # NoPhone

----------------------------------------------------------------------------
(* The order delete flow *)

IdTexts == {<<"1">>, <<"n", "2">>, <<"x">>, BTN_CANCEL}

AckOrderDeleted == "Buyurtma o'chirildi"
AckKept == "Bekor qilindi"
AttributeError == "AttributeError: module 'db' has no attribute 'delete_order'"

(* re.search(r"\d+", text): the number of the first run of digits; 0 with
   ok FALSE when there is none *)
FirstNumber(text) ==
    LET starts == {i \in 1 .. Len(text) : IsDigit(text[i])}
    IN  IF starts = {} THEN NoFloat
        ELSE LET i == CHOOSE k \in starts : \A m \in starts : k <= m
             IN  [ok |-> TRUE, v |-> NatOf(SubSeq(text, i, DigitRunEnd(text, i)))]

(* prompt_order_delete: callback orders:delete *)
prompt_order_delete(c) ==
    /\ Reaches(c)
    /\ IF is_admin(c)
       THEN fsm' = [fsm EXCEPT ![c] = "OrderDeleteStates:order_id"]
       ELSE UNCHANGED fsm
    /\ UNCHANGED <<data, users, products, orders, Rest>>

(* handle_order_delete_id: a message in OrderDeleteStates.order_id *)
handle_order_delete_id(c, text) ==
    /\ Reaches(c)
    /\ fsm[c] = "OrderDeleteStates:order_id"
    /\ LET match == FirstNumber(text)
       IN  IF is_cancel_message(text) THEN Clear(c)
           ELSE IF ~match.ok THEN UNCHANGED <<fsm, data>>
           ELSE IF get_order_with_details(match.v) = {} THEN UNCHANGED <<fsm, data>>
           ELSE Advance(c, [order_id |-> match.v], "OrderDeleteStates:confirm")
    /\ UNCHANGED <<users, products, orders, Rest>>

(* The exception a handler ends with; the dispatcher logs it and polls on *)
Raises(op, from_user, error) == last' = Answered(op, from_user, NoReturn, error)

(* confirm_order_delete: callback orders:delete_confirm in OrderDeleteStates.confirm.
   The handler calls db.delete_order(order_id); src/db.py defines no
   delete_order, so the attribute lookup on the module raises before any
   statement reaches the table, and state.clear() and the answers that follow
   the call are not reached. *)
confirm_order_delete(c) ==
    /\ Reaches(c)
    /\ fsm[c] = "OrderDeleteStates:confirm"
    /\ IF ~is_admin(c)
       THEN /\ Answer("confirm_order_delete", c, NoReturn, AckNone)
            /\ UNCHANGED <<fsm, data, orders>>
       ELSE IF ~Has(data[c], "order_id") \/ data[c].order_id = 0
       THEN /\ Clear(c)
            /\ Answer("confirm_order_delete", c, NoReturn, AckOrderNotFound)
            /\ UNCHANGED orders
       ELSE /\ Raises("confirm_order_delete", c, AttributeError)
            /\ UNCHANGED <<fsm, data, orders>>
    /\ UNCHANGED <<booted, now, users, products, call, succeeded>>
    /\ UNCHANGED Broadcasts

(* cancel_order_delete: callback orders:delete_keep in OrderDeleteStates.confirm *)
cancel_order_delete(c) ==
    /\ Reaches(c)
    /\ fsm[c] = "OrderDeleteStates:confirm"
    /\ IF ~is_admin(c)
       THEN Answer("cancel_order_delete", c, NoReturn, AckNone) /\ UNCHANGED <<fsm, data>>
       ELSE Clear(c) /\ Answer("cancel_order_delete", c, NoReturn, AckKept)
    /\ UNCHANGED <<booted, now, users, products, orders, call, succeeded>>
    /\ UNCHANGED Broadcasts

----------------------------------------------------------------------------
(* The menu buttons and the other texts the handlers compare a message with *)

BTN_PRODUCTS == <<"M", "a", "h", "s">>
BTN_MY_ORDERS == <<"M", "e", "n">>
BTN_INFO == <<"I", "n", "f", "o">>
BTN_CONTACT == <<"A", "l", "o", "q", "a">>
BTN_NEWS == <<"Y", "a", "n", "g">>
BTN_STATS == <<"S", "t", "a", "t">>
BTN_ORDERS_LIST == <<"R", "o", "'", "y">>
BTN_BROADCAST == <<"X", "a", "b", "a", "r">>
BTN_ADD_PRODUCT == <<"Q", "o", "'", "s", "h">>
BTN_EDIT_PRODUCT == <<"T", "a", "h", "r">>
BTN_REPORTS == <<"H", "i", "s", "o", "b">>
BTN_SUPPORT == <<"Q", "o", "'", "l", "l">>
BTN_SKIP_DESCRIPTION == <<"O", "'", "t">>
BTN_SKIP_PHOTOS == <<"O", "'", "t">>
BTN_BLOCK_USERS == <<"B", "l", "o", "k", "/">>
BTN_BLOCK == <<"B", "l", "o", "k">>
BTN_UNBLOCK == <<"C", "h", "i", "q">>
SlashStart == <<"/", "s", "t", "a", "r", "t">>
Ha == <<"h", "a">>
Yoq == {<<"y", "o", "'", "q">>, <<"y", "o", "q">>}

REPORT_LIST == {1}
can_view_reports(user_id) == user_id \in REPORT_LIST

(* A handler that answers and touches neither the FSM nor the tables:
   show_products, show_info, show_contact, show_news, show_stats,
   show_orders_summary, show_user_orders, edit_product_list,
   support_admin_reply and fallback *)
Stateless ==
    {"show_products", "show_info", "show_contact", "show_news", "show_stats",
     "show_orders_summary", "show_user_orders", "edit_product_list",
     "support_admin_reply", "fallback"}

AnswersOnly(c) == Reaches(c) /\ UNCHANGED vars

(* state.set_state(state) of a menu handler that first checks allowed *)
Enter(c, allowed, state) ==
    /\ Reaches(c)
    /\ IF allowed THEN fsm' = [fsm EXCEPT ![c] = state] ELSE UNCHANGED fsm
    /\ UNCHANGED <<data, users, products, orders, Rest>>

----------------------------------------------------------------------------
(* The support flow *)

(* support_start: the message BTN_SUPPORT *)
support_start(c) == Enter(c, ensure_user_registered(c), "SupportStates:waiting_message")

(* support_receive: a message in SupportStates.waiting_message.  GROUP_LIST
   is not empty; a text message is cancelled, forwarded to the groups, or
   fails to be sent, and every one of these branches ends in state.clear() *)
support_receive(c, text) ==
    /\ Reaches(c)
    /\ fsm[c] = "SupportStates:waiting_message"
    /\ Clear(c)
    /\ UNCHANGED <<users, products, orders, Rest>>

----------------------------------------------------------------------------
(* The block/unblock flow *)

(* set_user_blocked: UPDATE users SET is_blocked = ? WHERE tg_id = ? *)
set_user_blocked(tg_id, blocked) ==
    [u \in DOMAIN users |->
        IF users[u].tg_id = tg_id THEN [users[u] EXCEPT !.is_blocked = blocked]
        ELSE users[u]]

(* block_users_menu: the message BTN_BLOCK_USERS *)
block_users_menu(c) == Enter(c, is_admin(c), "BlockUserStates:action")

(* block_users_choose_action: a message in BlockUserStates.action *)
block_users_choose_action(c, text) ==
    /\ Reaches(c)
    /\ fsm[c] = "BlockUserStates:action"
    /\ IF is_cancel_message(text) THEN cancel_admin_action(c)
       ELSE IF Strip(text) \notin {BTN_BLOCK, BTN_UNBLOCK} THEN UNCHANGED <<fsm, data>>
       ELSE Advance(c, [block_action |-> IF Strip(text) = BTN_BLOCK
                                         THEN "block" ELSE "unblock"],
                    "BlockUserStates:phone")
    /\ UNCHANGED <<users, products, orders, Rest>>

(* block_users_apply: if is_admin(user["tg_id"]) *)
TargetIsNoAdmin(user) == FALSE
TargetIsAdmin(user) == is_admin(user.tg_id)

(* block_users_apply: a message in BlockUserStates.phone *)
block_users_apply(c, text) ==
    /\ Reaches(c)
    /\ fsm[c] = "BlockUserStates:phone"
    /\ LET found == find_user_by_phone(text)
           user == users[First(found)]
           action == IF Has(data[c], "block_action") THEN data[c].block_action ELSE NULL
       IN  IF is_cancel_message(text) THEN cancel_admin_action(c) /\ UNCHANGED users
           ELSE IF found = {} THEN UNCHANGED <<fsm, data, users>>
           ELSE IF TargetIsAdmin(user) THEN Clear(c) /\ UNCHANGED users
           ELSE /\ users' = IF action = "block"
                            THEN IF user.is_blocked THEN users
                                 ELSE set_user_blocked(user.tg_id, TRUE)
                            ELSE IF ~user.is_blocked THEN users
                                 ELSE set_user_blocked(user.tg_id, FALSE)
                /\ Clear(c)
    /\ UNCHANGED <<products, orders, Rest>>

----------------------------------------------------------------------------
(* The report flow *)

NoDate == [ok |-> FALSE, y |-> 0, m |-> 0, d |-> 0]

(* The places of the separator sep in s *)
Places(s, sep) == {i \in 1 .. Len(s) : s[i] = sep}

(* str.split(sep) of a text with exactly two separators; <<>> otherwise *)
Fields3(s, sep) ==
    LET at == Places(s, sep)
    IN  IF Cardinality(at) # 2 THEN <<>>
        ELSE LET i == CHOOSE k \in at : \A m \in at : k <= m
                 j == CHOOSE k \in at : \A m \in at : m <= k
             IN  <<SubSeq(s, 1, i - 1), SubSeq(s, i + 1, j - 1), SubSeq(s, j + 1, Len(s))>>

IsLeap(y) == (y % 4 = 0 /\ y % 100 # 0) \/ y % 400 = 0

DaysIn(y, m) ==
    IF m = 2 THEN (IF IsLeap(y) THEN 29 ELSE 28)
    ELSE IF m \in {4, 6, 9, 11} THEN 30 ELSE 31

(* One or two digits that spell a number from 1 to most: the patterns of
   the %m and %d directives *)
UpTo(s, most) ==
    /\ Len(s) \in {1, 2}
    /\ AllDigits(s)
    /\ NatOf(s) \in 1 .. most

(* datetime.strptime with the year, month and day fields ytext, mtext, dtext:
   %Y is four digits, and the date has to exist *)
DateOf(ytext, mtext, dtext) ==
    IF /\ Len(ytext) = 4 /\ AllDigits(ytext) /\ NatOf(ytext) >= 1
       /\ UpTo(mtext, 12)
       /\ UpTo(dtext, 31)
       /\ NatOf(dtext) <= DaysIn(NatOf(ytext), NatOf(mtext))
    THEN [ok |-> TRUE, y |-> NatOf(ytext), m |-> NatOf(mtext), d |-> NatOf(dtext)]
    ELSE NoDate

(* datetime.strptime(value, "%Y-%m-%d") *)
StrptimeYmd(value) ==
    LET f == Fields3(value, "-")
    IN  IF f = <<>> THEN NoDate ELSE DateOf(f[1], f[2], f[3])

(* datetime.strptime(value, "%d.%m.%Y") *)
StrptimeDmy(value) ==
    LET f == Fields3(value, ".")
    IN  IF f = <<>> THEN NoDate ELSE DateOf(f[3], f[2], f[1])

(* parse_report_date: the first format that parses the stripped text *)
parse_report_date(value) ==
    LET cleaned == Strip(value)
    IN  IF StrptimeYmd(cleaned).ok THEN StrptimeYmd(cleaned) ELSE StrptimeDmy(cleaned)

(* A number of at least two digits: the %m and %d fields of strftime *)
TwoDigits(n) == IF n < 10 THEN <<"0">> \o NatText(n) ELSE NatText(n)

(* date.strftime("%Y-%m-%d"); the C library does not pad the year *)
Strftime(date) == NatText(date.y) \o <<"-">> \o TwoDigits(date.m) \o <<"-">> \o TwoDigits(date.d)

(* end_date < start_date *)
BeforeNever(a, b) == FALSE
Before(a, b) ==
    \/ a.y < b.y
    \/ a.y = b.y /\ a.m < b.m
    \/ a.y = b.y /\ a.m = b.m /\ a.d < b.d

(* report_start: the message BTN_REPORTS *)
report_start(c) == Enter(c, can_view_reports(c), "ReportStates:start_date")

(* report_start_date: a message in ReportStates.start_date *)
report_start_date(c, text) ==
    /\ Reaches(c)
    /\ fsm[c] = "ReportStates:start_date"
    /\ LET start_date == parse_report_date(text)
       IN  IF is_cancel_message(text) THEN cancel_admin_action(c)
           ELSE IF ~start_date.ok THEN UNCHANGED <<fsm, data>>
           ELSE Advance(c, [report_start |-> Strftime(start_date)], "ReportStates:end_date")
    /\ UNCHANGED <<users, products, orders, Rest>>

(* report_end_date: a message in ReportStates.end_date.  A stored start
   that strptime refuses raises, and the step is kept *)
report_end_date(c, text) ==
    /\ Reaches(c)
    /\ fsm[c] = "ReportStates:end_date"
    /\ LET end_date == parse_report_date(text)
           start_date == StrptimeYmd(data[c].report_start)
       IN  IF is_cancel_message(text) THEN cancel_admin_action(c)
           ELSE IF ~end_date.ok THEN UNCHANGED <<fsm, data>>
           ELSE IF ~start_date.ok THEN UNCHANGED <<fsm, data>>
           ELSE IF Before(end_date, start_date) THEN UNCHANGED <<fsm, data>>
           ELSE Clear(c)
    /\ UNCHANGED <<users, products, orders, Rest>>

----------------------------------------------------------------------------
(* The order search flow *)

(* prompt_order_search: callback orders:search *)
prompt_order_search(c) == Enter(c, is_admin(c), "OrderSearchStates:order_id")

(* handle_order_search: a message in OrderSearchStates.order_id; the step is
   kept after an order is shown, for another id *)
handle_order_search(c, text) ==
    /\ Reaches(c)
    /\ fsm[c] = "OrderSearchStates:order_id"
    /\ IF is_cancel_message(text) THEN Clear(c) ELSE UNCHANGED <<fsm, data>>
    /\ UNCHANGED <<users, products, orders, Rest>>

----------------------------------------------------------------------------
(* The product add flow *)

(* add_product_start: the message BTN_ADD_PRODUCT *)
add_product_start(c) == Enter(c, is_admin(c), "AddProductStates:name")

(* add_product_name: a message in AddProductStates.name *)
add_product_name(c, text) ==
    /\ Reaches(c)
    /\ fsm[c] = "AddProductStates:name"
    /\ IF is_cancel_message(text) THEN cancel_admin_action(c)
       ELSE Advance(c, [name |-> text], "AddProductStates:price")
    /\ UNCHANGED <<users, products, orders, Rest>>

(* add_product_price: a message in AddProductStates.price *)
add_product_price(c, text) ==
    /\ Reaches(c)
    /\ fsm[c] = "AddProductStates:price"
    /\ LET price == parse_price(text)
       IN  IF is_cancel_message(text) THEN cancel_admin_action(c)
           ELSE IF ~price.ok THEN UNCHANGED <<fsm, data>>
           ELSE Advance(c, [price |-> price.v], "AddProductStates:description")
    /\ UNCHANGED <<users, products, orders, Rest>>

(* add_product_description: a message in AddProductStates.description *)
add_product_description(c, text) ==
    /\ Reaches(c)
    /\ fsm[c] = "AddProductStates:description"
    /\ IF is_cancel_message(text) THEN cancel_admin_action(c)
       ELSE Advance(c, [description |-> IF Strip(text) = BTN_SKIP_DESCRIPTION
                                        THEN NoText ELSE text],
                    "AddProductStates:photos")
    /\ UNCHANGED <<users, products, orders, Rest>>

(* add_product_photos: a text message in AddProductStates.photos; the
   products table holds at most the rows of ProductIds *)
add_product_photos(c, text) ==
    /\ Reaches(c)
    /\ fsm[c] = "AddProductStates:photos"
    /\ IF is_cancel_message(text) THEN cancel_admin_action(c) /\ UNCHANGED products
       ELSE IF Strip(text) = BTN_SKIP_PHOTOS
       THEN /\ LastRowId(DOMAIN products) \in ProductIds
            /\ products' = products @@
                  (LastRowId(DOMAIN products) :> Product(data[c].name, data[c].price))
            /\ Clear(c)
       ELSE UNCHANGED <<fsm, data, products>>
    /\ UNCHANGED <<users, orders, Rest>>

(* edit_product_photos: a text message in EditProductStates.photos *)
edit_product_photos(c, text) ==
    /\ Reaches(c)
    /\ fsm[c] = "EditProductStates:photos"
    /\ IF is_cancel_message(text) THEN cancel_admin_action(c)
       ELSE IF Strip(text) = BTN_SKIP_PHOTOS THEN Clear(c)
       ELSE UNCHANGED <<fsm, data>>
    /\ UNCHANGED <<users, products, orders, Rest>>

----------------------------------------------------------------------------
(* The broadcast flow *)

(* broadcast_start: the message BTN_BROADCAST *)
broadcast_start(c) == Enter(c, is_admin(c), "BroadcastStates:content")

(* BroadcastPayload(kind="text", text=message.text) *)
BroadcastPayload(text) == [kind |-> "text", text |-> text]

(* broadcast_content: a text message in BroadcastStates.content *)
broadcast_content(c, text) ==
    /\ Reaches(c)
    /\ fsm[c] = "BroadcastStates:content"
    /\ Advance(c, [broadcast_payload |-> BroadcastPayload(text)], "BroadcastStates:confirm")
    /\ UNCHANGED <<users, products, orders, Rest>>

(* db.list_users(): SELECT * FROM users, in row order *)
list_users == [i \in 1 .. Cardinality(DOMAIN users) |->
                  CHOOSE u \in DOMAIN users : Cardinality({v \in DOMAIN users : v < u}) = i - 1]

(* broadcast_confirm: except Exception around one recipient's send, so the
   loop goes on to the next user whether the send succeeded or raised *)
GoesOnAfterSuccess(sent) == sent
GoesOn(sent) == TRUE

(* broadcast_confirm: the loop over users from the i-th row on; refused is
   the set of recipients whose send raises *)
RECURSIVE FanOut(_, _, _, _)
FanOut(rows, i, refused, tally) ==
    IF i > Len(rows) THEN tally
    ELSE LET sent == users[rows[i]].tg_id \notin refused
             next == [attempts |-> Append(tally.attempts, rows[i]),
                      success |-> tally.success + (IF sent THEN 1 ELSE 0),
                      failed |-> tally.failed + (IF sent THEN 0 ELSE 1)]
         IN  IF GoesOn(sent) THEN FanOut(rows, i + 1, refused, next) ELSE next

NoTally == [attempts |-> <<>>, success |-> 0, failed |-> 0]

(* broadcast_confirm: a message in BroadcastStates.confirm; delivered keeps
   the report of the last fan-out *)
broadcast_confirm(c, text) ==
    /\ Reaches(c)
    /\ fsm[c] = "BroadcastStates:confirm"
    /\ IF Lower(text) \notin {Ha} \cup Yoq THEN UNCHANGED <<fsm, data, delivered>>
       ELSE IF Lower(text) \in Yoq THEN Clear(c) /\ UNCHANGED delivered
       ELSE IF ~Has(data[c], "broadcast_payload") THEN UNCHANGED <<fsm, data, delivered>>
       ELSE /\ \E refused \in SUBSET {users[u].tg_id : u \in DOMAIN users} :
                   delivered' = <<[chat |-> c, refused |-> refused]
                                    @@ FanOut(list_users, 1, refused, NoTally)>>
            /\ Clear(c)
    /\ UNCHANGED <<users, products, orders, booted, now, call, last, succeeded,
                   media_group_buffer, tasks, prompts>>

----------------------------------------------------------------------------
(* The dispatcher: the message handlers in the order main registers them.
   A handler is taken by the first registration whose filters all pass:
   state is the state filter ("*" for none) and kind the other filter, a
   command, an exact text, a contact, a location, a reply, or none. *)

On(fn, state, kind, text) == [fn |-> fn, state |-> state, kind |-> kind, text |-> text]

Registered ==
    << On("start", "*", "command", SlashStart),
       On("handle_contact", "*", "contact", NoText),
       On("show_products", "*", "text", BTN_PRODUCTS),
       On("order_quantity", "OrderStates:quantity", "any", NoText),
       On("order_address_location", "OrderStates:address", "location", NoText),
       On("order_address", "OrderStates:address", "any", NoText),
       On("start_admin_order", "*", "text", BTN_CREATE_ORDER),
       On("admin_order_name", "AdminOrderStates:name", "any", NoText),
       On("admin_order_phone", "AdminOrderStates:phone", "any", NoText),
       On("admin_order_address", "AdminOrderStates:address", "any", NoText),
       On("admin_order_product_text", "AdminOrderStates:product", "any", NoText),
       On("admin_order_quantity", "AdminOrderStates:quantity", "any", NoText),
       On("show_info", "*", "text", BTN_INFO),
       On("show_contact", "*", "text", BTN_CONTACT),
       On("show_news", "*", "text", BTN_NEWS),
       On("support_start", "*", "text", BTN_SUPPORT),
       On("support_receive", "SupportStates:waiting_message", "any", NoText),
       On("block_users_menu", "*", "text", BTN_BLOCK_USERS),
       On("block_users_choose_action", "BlockUserStates:action", "any", NoText),
       On("block_users_apply", "BlockUserStates:phone", "any", NoText),
       On("show_stats", "*", "text", BTN_STATS),
       On("report_start", "*", "text", BTN_REPORTS),
       On("report_start_date", "ReportStates:start_date", "any", NoText),
       On("report_end_date", "ReportStates:end_date", "any", NoText),
       On("show_orders_summary", "*", "text", BTN_ORDERS_LIST),
       On("show_user_orders", "*", "text", BTN_MY_ORDERS),
       On("handle_order_delete_id", "OrderDeleteStates:order_id", "any", NoText),
       On("handle_order_search", "OrderSearchStates:order_id", "any", NoText),
       On("add_product_start", "*", "text", BTN_ADD_PRODUCT),
       On("add_product_name", "AddProductStates:name", "any", NoText),
       On("add_product_price", "AddProductStates:price", "any", NoText),
       On("add_product_description", "AddProductStates:description", "any", NoText),
       On("add_product_photos", "AddProductStates:photos", "any", NoText),
       On("edit_product_list", "*", "text", BTN_EDIT_PRODUCT),
       On("edit_product_cancel", "EditProductStates:field", "any", NoText),
       On("edit_product_value", "EditProductStates:value", "any", NoText),
       On("edit_product_photos", "EditProductStates:photos", "any", NoText),
       On("broadcast_start", "*", "text", BTN_BROADCAST),
       On("broadcast_content", "BroadcastStates:content", "any", NoText),
       On("broadcast_confirm", "BroadcastStates:confirm", "any", NoText),
       On("support_admin_reply", "*", "reply", NoText),
       On("fallback", "*", "any", NoText) >>

(* CommandStart(): the text is /start, alone or followed by arguments *)
CommandStart(text) ==
    \/ text = SlashStart
    \/ Len(text) > Len(SlashStart) /\ SubSeq(text, 1, Len(SlashStart) + 1) = SlashStart \o <<" ">>

(* The filters of registration h on a text message that is not a reply,
   sent in a private chat whose FSM is in state *)
Passes(h, state, text) ==
    /\ h.state \in {"*", state}
    /\ CASE h.kind = "command" -> CommandStart(text)
         [] h.kind = "text" -> text = h.text
         [] h.kind = "any" -> TRUE
         [] OTHER -> FALSE

(* The first registration from k on whose filters pass; the last one,
   fallback, has no filter *)
RECURSIVE FirstPassing(_, _, _)
FirstPassing(k, state, text) ==
    IF Passes(Registered[k], state, text) THEN k ELSE FirstPassing(k + 1, state, text)

(* The handler the dispatcher calls *)
Handler(state, text) == Registered[FirstPassing(1, state, text)].fn

(* The call of handler fn on a text message of chat c *)
Call(fn, c, text) ==
        CASE fn = "start" -> start(c)
          [] fn = "order_quantity" -> order_quantity(c, text)
          [] fn = "order_address" -> order_address(c, text)
          [] fn = "start_admin_order" -> start_admin_order(c)
          [] fn = "admin_order_name" -> admin_order_name(c, text)
          [] fn = "admin_order_phone" -> admin_order_phone(c, text)
          [] fn = "admin_order_address" -> admin_order_address(c, text)
          [] fn = "admin_order_product_text" -> admin_order_product_text(c, text)
          [] fn = "admin_order_quantity" -> admin_order_quantity(c, text)
          [] fn = "support_start" -> support_start(c)
          [] fn = "support_receive" -> support_receive(c, text)
          [] fn = "block_users_menu" -> block_users_menu(c)
          [] fn = "block_users_choose_action" -> block_users_choose_action(c, text)
          [] fn = "block_users_apply" -> block_users_apply(c, text)
          [] fn = "report_start" -> report_start(c)
          [] fn = "report_start_date" -> report_start_date(c, text)
          [] fn = "report_end_date" -> report_end_date(c, text)
          [] fn = "handle_order_delete_id" -> handle_order_delete_id(c, text)
          [] fn = "handle_order_search" -> handle_order_search(c, text)
          [] fn = "add_product_start" -> add_product_start(c)
          [] fn = "add_product_name" -> add_product_name(c, text)
          [] fn = "add_product_price" -> add_product_price(c, text)
          [] fn = "add_product_description" -> add_product_description(c, text)
          [] fn = "add_product_photos" -> add_product_photos(c, text)
          [] fn = "edit_product_cancel" -> edit_product_cancel(c, text)
          [] fn = "edit_product_value" -> edit_product_value(c, text)
          [] fn = "edit_product_photos" -> edit_product_photos(c, text)
          [] fn = "broadcast_start" -> broadcast_start(c)
          [] fn = "broadcast_content" -> broadcast_content(c, text)
          [] fn = "broadcast_confirm" -> broadcast_confirm(c, text)
          [] fn \in Stateless -> AnswersOnly(c)

(* A text message of chat c *)
message(c, text) == Call(Handler(fsm[c], text), c, text)

----------------------------------------------------------------------------
(* main: init_db on the database file, and a fresh Dispatcher(MemoryStorage()) *)
main ==
    /\ booted' = TRUE
    /\ orders' = init_db
    /\ fsm' = [c \in ChatIds |-> "idle"]
    /\ data' = [c \in ChatIds |-> EmptyData]
    /\ call' = [c \in ChatIds |-> Idle]
    /\ media_group_buffer' = EmptyBuffer
    /\ tasks' = [c \in ChatIds |-> NoTasks]
    /\ UNCHANGED <<now, users, products, last, succeeded, prompts, delivered>>

----------------------------------------------------------------------------

(* Orders placed through the user order flow before the run starts *)
PlacedOrders ==
    UNION { [1 .. n -> { OpenOrder(u, 1, TwoTonna, 1000, 1) : u \in DOMAIN InitUsers }]
            : n \in 0 .. MaxOrders }

InitProcess ==
    /\ now = 1
    /\ fsm = [c \in ChatIds |-> "idle"]
    /\ data = [c \in ChatIds |-> EmptyData]
    /\ call = [c \in ChatIds |-> Idle]
    /\ last = Answered("-", 0, NoReturn, AckNone)
    /\ succeeded = [o \in OrderIds |-> 0]
    /\ media_group_buffer = EmptyBuffer
    /\ tasks = [c \in ChatIds |-> NoTasks]
    /\ prompts = [c \in ChatIds |-> [g \in MediaGroupIds |-> 0]]
    /\ delivered = <<>>

(* The order lifecycle: status callbacks of admins and users on placed orders *)
Init ==
    /\ booted = TRUE
    /\ users = InitUsers
    /\ products = InitProducts
    /\ orders \in PlacedOrders
    /\ InitProcess

Next ==
    \/ \E c \in ChatIds, o \in OrderIds : close_order_status(c, o)
    \/ \E c \in ChatIds, o \in OrderIds : cancel_order_status(c, o)
    \/ \E c \in ChatIds : update_order_status(c)
    \/ \E c \in ChatIds, o \in OrderIds : confirm_user_cancel_order(c, o)
    \/ \E c \in ChatIds : cancel_order_by_user(c)
    \/ Tick

Spec == Init /\ [][Next]_vars

----------------------------------------------------------------------------
(* Prices: a user places orders while an admin edits and deletes the product,
   on a database file that may hold an order written by an earlier version of
   the program, before the columns of the migrations existed. *)

LegacyOrder ==
    [user_id |-> 1, product_id |-> 1, quantity |-> TwoTonna, created_at |-> 1,
     status |-> "canceled", order_price_per_kg |-> NoPrice, closed_at |-> NoTime,
     closed_by |-> NoId, canceled_by_role |-> NULL]

FlowAdmins == {1}
FlowUsers == {11}
FlowChats == FlowAdmins \cup FlowUsers

InitPrice ==
    /\ booted = FALSE
    /\ users = InitUsers
    /\ products = InitProducts
    /\ orders \in {[o \in {} |-> LegacyOrder], [o \in {1} |-> LegacyOrder]}
    /\ InitProcess

NextPrice ==
    \/ main
    \/ \E c \in FlowUsers, p \in DOMAIN products : order_start(c, p)
    \/ \E c \in FlowUsers, t \in QuantityTexts : order_quantity(c, t)
    \/ \E c \in FlowUsers, t \in AddressTexts : order_address(c, t)
    \/ \E c \in FlowUsers : confirm_order(c)
    \/ \E c \in FlowUsers : cancel_order(c)
    \/ \E c \in FlowAdmins, p \in DOMAIN products : edit_product_start(c, p)
    \/ \E c \in FlowAdmins : edit_product_cancel(c, BTN_CANCEL)
    \/ \E c \in FlowAdmins, f \in Fields : edit_product_field(c, f)
    \/ \E c \in FlowAdmins, t \in PriceTexts : edit_product_value(c, t)
    \/ \E c \in FlowAdmins, p \in DOMAIN products : confirm_product_delete(c, p)
    \/ \E p \in DOMAIN products : update_product(p, products[p].name, 150)
    \/ \E c \in FlowAdmins, o \in OrderIds : close_order_status(c, o)
    \/ \E c \in FlowAdmins, o \in OrderIds : cancel_order_status(c, o)
    \/ \E c \in FlowAdmins : update_order_status(c)
    \/ \E c \in FlowUsers, o \in OrderIds : confirm_user_cancel_order(c, o)
    \/ \E c \in FlowUsers : cancel_order_by_user(c)

SpecPrice == InitPrice /\ [][NextPrice]_vars

----------------------------------------------------------------------------
(* Order creation: a user places orders and an admin creates orders for
   customers, found by phone or new. *)

InitCreate ==
    /\ booted = TRUE
    /\ users = InitUsers
    /\ products = InitProducts
    /\ orders = [o \in {} |-> LegacyOrder]
    /\ InitProcess

NextCreate ==
    \/ Tick
    \/ \E c \in FlowUsers, p \in ProductIds : order_start(c, p)
    \/ \E c \in FlowUsers, t \in QuantityTexts : order_quantity(c, t)
    \/ \E c \in FlowUsers, t \in AddressTexts : order_address(c, t)
    \/ \E c \in FlowUsers : confirm_order(c)
    \/ \E c \in FlowUsers : cancel_order(c)
    \/ \E c \in FlowAdmins : start_admin_order(c)
    \/ \E c \in FlowAdmins, t \in PhoneTexts : admin_order_phone(c, t)
    \/ \E c \in FlowAdmins, t \in NameTexts \cup {NoText, BTN_CANCEL} : admin_order_name(c, t)
    \/ \E c \in FlowAdmins, t \in AddressTexts : admin_order_address(c, t)
    \/ \E c \in FlowAdmins : admin_order_product_text(c, BTN_CANCEL)
    \/ \E c \in FlowAdmins, p \in ProductIds : admin_order_product(c, p)
    \/ \E c \in FlowAdmins, t \in QuantityTexts : admin_order_quantity(c, t)
    \/ \E c \in FlowAdmins : confirm_admin_order(c)
    \/ \E c \in FlowAdmins : cancel_admin_order(c)

SpecCreate == InitCreate /\ [][NextCreate]_vars

----------------------------------------------------------------------------
(* Price snapshots: a user and an admin create orders while the admin, between
   two orders, edits the product's price. *)

NextSnapshot ==
    \/ \E c \in FlowUsers, p \in DOMAIN products : order_start(c, p)
    \/ \E c \in FlowUsers, t \in QuantityTexts : order_quantity(c, t)
    \/ \E c \in FlowUsers, t \in AddressTexts : order_address(c, t)
    \/ \E c \in FlowUsers : confirm_order(c)
    \/ \E c \in FlowUsers : cancel_order(c)
    \/ \E c \in FlowAdmins, p \in DOMAIN products : edit_product_start(c, p)
    \/ \E c \in FlowAdmins : edit_product_field(c, "price")
    \/ \E c \in FlowAdmins, t \in PriceTexts : edit_product_value(c, t)
    \/ \E c \in FlowAdmins : start_admin_order(c)
    \/ \E c \in FlowAdmins, t \in PhoneTexts : admin_order_phone(c, t)
    \/ \E c \in FlowAdmins, t \in NameTexts \cup {BTN_CANCEL} : admin_order_name(c, t)
    \/ \E c \in FlowAdmins, t \in AddressTexts : admin_order_address(c, t)
    \/ \E c \in FlowAdmins, p \in DOMAIN products : admin_order_product(c, p)
    \/ \E c \in FlowAdmins, t \in QuantityTexts : admin_order_quantity(c, t)
    \/ \E c \in FlowAdmins : confirm_admin_order(c)
    \/ \E c \in FlowAdmins : cancel_admin_order(c)

SpecSnapshot == InitCreate /\ [][NextSnapshot]_vars

----------------------------------------------------------------------------
(* Registration and ordering: chats with and without a users row send /start,
   share a contact and go through the user order flow. *)

NextRegister ==
    \/ Tick
    \/ \E c \in FlowChats : start(c)
    \/ \E c \in FlowChats, t \in ContactTexts : handle_contact(c, t)
    \/ \E c \in FlowChats, p \in DOMAIN products : order_start(c, p)
    \/ \E c \in FlowChats, t \in QuantityTexts : order_quantity(c, t)
    \/ \E c \in FlowChats, t \in AddressTexts : order_address(c, t)
    \/ \E c \in FlowChats : confirm_order(c)
    \/ \E c \in FlowChats : cancel_order(c)

SpecRegister == InitCreate /\ [][NextRegister]_vars

----------------------------------------------------------------------------
(* Quantity normalization: chats enter quantities of many spellings, and
   send again, as a quantity, a text the step stored before. *)

SpelledQuantities ==
    {<<"2", ",", "3">>, <<"2", ",", "3", "0">>, <<"0", "2">>, <<"2", ".", "0", "5">>,
     <<" ", "3", " ">>, <<"1", "0", ",", "5">>, <<"1", ",", "9", "9">>, <<"2", "t">>}

NextNormalize ==
    \/ \E c \in FlowChats, p \in DOMAIN products : order_start(c, p)
    \/ \E c \in FlowChats, t \in SpelledQuantities : order_quantity(c, t)
    \/ \E c \in FlowChats : Has(data[c], "quantity") /\ order_quantity(c, data[c].quantity)
    \/ \E c \in FlowChats : cancel_order(c)

SpecNormalize == InitCreate /\ [][NextNormalize]_vars

----------------------------------------------------------------------------
(* Order deletion: an admin goes through the delete flow while the status
   callbacks of the admin and of a user act on the placed orders. *)

NextDelete ==
    \/ Tick
    \/ \E c \in FlowChats : prompt_order_delete(c)
    \/ \E c \in FlowChats, t \in IdTexts : handle_order_delete_id(c, t)
    \/ \E c \in FlowChats : confirm_order_delete(c)
    \/ \E c \in FlowChats : cancel_order_delete(c)
    \/ \E c \in FlowAdmins, o \in OrderIds : close_order_status(c, o)
    \/ \E c \in FlowAdmins, o \in OrderIds : cancel_order_status(c, o)
    \/ \E c \in FlowAdmins : update_order_status(c)
    \/ \E c \in FlowUsers, o \in OrderIds : confirm_user_cancel_order(c, o)
    \/ \E c \in FlowUsers : cancel_order_by_user(c)

SpecDelete == Init /\ [][NextDelete]_vars

----------------------------------------------------------------------------
(* Dispatch: an admin and a user send text messages in every state of their
   conversations; the inline buttons that open a flow are pressed as well. *)

DateText == <<"1", ".", "0", "2", ".", "2", "0", "2", "4">>

MenuTexts ==
    {BTN_PRODUCTS, BTN_MY_ORDERS, BTN_INFO, BTN_CONTACT, BTN_NEWS, BTN_STATS,
     BTN_ORDERS_LIST, BTN_BROADCAST, BTN_ADD_PRODUCT, BTN_EDIT_PRODUCT, BTN_REPORTS,
     BTN_SUPPORT, BTN_BLOCK_USERS, BTN_CREATE_ORDER}

(* The texts a chat sends in any state: the cancel button, a menu text typed
   by hand, and replies to the steps *)
ReplyTexts ==
    {BTN_CANCEL, BTN_PRODUCTS, BTN_BLOCK, Ha, <<"2", ",", "3">>, DateText}

(* The menu buttons that open a flow *)
OpeningTexts ==
    {BTN_CREATE_ORDER, BTN_SUPPORT, BTN_BLOCK_USERS, BTN_REPORTS, BTN_ADD_PRODUCT,
     BTN_BROADCAST}

(* A button that opens a flow is pressed by a chat that is in no flow: the
   steps of a flow replace the menu keyboard by their own *)
Opens(c) == fsm[c] = "idle"

NextDispatch ==
    \/ \E c \in FlowChats, t \in ReplyTexts : message(c, t)
    \/ \E c \in FlowChats, t \in OpeningTexts : Opens(c) /\ message(c, t)
    \/ \E c \in FlowUsers, p \in DOMAIN products : Opens(c) /\ order_start(c, p)
    \/ \E c \in FlowAdmins, p \in DOMAIN products : admin_order_product(c, p)
    \/ \E c \in FlowAdmins, p \in DOMAIN products : Opens(c) /\ edit_product_start(c, p)
    \/ \E c \in FlowAdmins, f \in {"price", "photos"} : edit_product_field(c, f)
    \/ \E c \in FlowAdmins : Opens(c) /\ prompt_order_search(c)
    \/ \E c \in FlowAdmins : Opens(c) /\ prompt_order_delete(c)

(* The orders table holds the orders one user placed *)
InitDispatch ==
    /\ Init
    /\ DOMAIN orders = OrderIds
    /\ \A o \in OrderIds : orders[o].user_id = 1

SpecDispatch == InitDispatch /\ [][NextDispatch]_vars

----------------------------------------------------------------------------
(* Validation: an admin answers every step of every flow with texts the step
   accepts and texts it refuses; NoText is a message that has no text. *)

EarlierDateText == <<"2", "0", "2", "4", "-", "1", "-", "5">>

AdminPhone == <<"9", "0", "3">>

StepTexts ==
    {BTN_CANCEL, BTN_BLOCK, <<"2", ",", "3">>, <<"1">>, <<"9", "0", "1">>, AdminPhone,
     DateText, EarlierDateText, NoText}

(* The users table also holds the row of an admin who sent /start and shared
   a contact *)
InitValidate ==
    /\ booted = TRUE
    /\ users = InitUsers @@ (3 :> RegisteredUser(2, AdminPhone))
    /\ products = InitProducts
    /\ orders = [o \in OrderIds |-> OpenOrder(1, 1, TwoTonna, 1000, 1)]
    /\ InitProcess

NextValidate ==
    \/ \E c \in FlowAdmins, t \in StepTexts : message(c, t)
    \/ \E c \in FlowAdmins, t \in OpeningTexts : Opens(c) /\ message(c, t)
    \/ \E c \in FlowAdmins, p \in DOMAIN products : Opens(c) /\ order_start(c, p)
    \/ \E c \in FlowAdmins, p \in DOMAIN products : admin_order_product(c, p)
    \/ \E c \in FlowAdmins, p \in DOMAIN products : Opens(c) /\ edit_product_start(c, p)
    \/ \E c \in FlowAdmins, f \in {"price", "photos"} : edit_product_field(c, f)
    \/ \E c \in FlowAdmins : Opens(c) /\ prompt_order_search(c)
    \/ \E c \in FlowAdmins : Opens(c) /\ prompt_order_delete(c)

SpecValidate == InitValidate /\ [][NextValidate]_vars

----------------------------------------------------------------------------
(* Properties of the order lifecycle *)

Terminal(row) == row.status \in {"closed", "canceled"}

(* The last answer came from a status call on an order that is stored *)
LastOnStoredOrder == last.r.fn # "-" /\ last.r.order_id \in DOMAIN orders

(* C1: an order whose status is 'closed' or 'canceled' never changes status
   again, whatever status calls of whatever actors follow. *)
C1_StatusIsTerminal ==
    [][\A o \in DOMAIN orders :
          (Terminal(orders[o]) /\ o \in DOMAIN orders')
              => orders'[o].status = orders[o].status]_vars

(* C1 witness: an UPDATE that was prepared while the order was open has run on
   the order after another call had already ended it. *)
C1_Witness ==
    /\ LastOnStoredOrder
    /\ last.r.updated
    /\ \/ orders[last.r.order_id].status # last.r.status
       \/ orders[last.r.order_id].canceled_by_role # last.r.canceled_by_role

(* C2: of the transition attempts that race on one open order, exactly one
   returns updated=True. *)
C2_OneAttemptSucceeds == \A o \in OrderIds : succeeded[o] <= 1

(* C3: what the losing caller of a race is returned (status, closed_by,
   canceled_by_role) is what the winner wrote to the row. *)
C3_LoserSeesWinnersRow ==
    (LastOnStoredOrder /\ last.r.status # NULL)
        => LET row == orders[last.r.order_id]
           IN  /\ last.r.status = row.status
               /\ last.r.canceled_by_role = row.canceled_by_role
               /\ last.r.fn = "update_order_status" => last.r.closed_by = row.closed_by

(* C4: on an order that is no longer open, a further status call returns
   updated=False (it goes no further than its SELECT), and no step changes the
   order's closed_at, closed_by or canceled_by_role. *)
C4_TerminalOrderIsFrozen ==
    [][/\ \A o \in DOMAIN orders :
             (orders[o].status # "open" /\ o \in DOMAIN orders')
                 => /\ orders'[o].closed_at = orders[o].closed_at
                    /\ orders'[o].closed_by = orders[o].closed_by
                    /\ orders'[o].canceled_by_role = orders[o].canceled_by_role
       /\ \A c \in ChatIds :
             (call[c].pc = "idle" /\ call'[c].pc = "update")
                 => orders[call'[c].order_id].status = "open"
       /\ \A c \in ChatIds :
             (call[c].pc = "idle" /\ call'[c].pc = "idle" /\ last' # last
              /\ last'.chat = c)
                 => ~last'.r.updated]_vars

(* C4 witness: a call made after the order was ended, at a later time than the
   one stored in closed_at, has returned updated=False. *)
C4_Witness ==
    /\ LastOnStoredOrder
    /\ ~last.r.updated
    /\ Terminal(orders[last.r.order_id])
    /\ orders[last.r.order_id].closed_at < now

TerminalReasons ==
    {AckAlreadyClosed, AckAlreadyCanceled, AckOtherAdminClosed, AckOtherAdminCanceled,
     AckCustomerCanceled, AckAlreadyAccepted, AckOrderAlreadyCanceled}

(* C5: a transition attempt on an order id that does not exist is answered
   with the not-found reason, not with an 'already closed' or 'already
   canceled' reason. *)
C5_MissingOrderIsReported ==
    (last.r.fn # "-" /\ ~last.r.updated /\ last.r.status = NULL)
        => (last.text = AckOrderNotFound /\ last.text \notin TerminalReasons)

(* C6: an admin's close attempt that finds the order already ended answers by
   the stored row: closed by another admin, closed by this admin, canceled by
   the customer; always one of the reasons and never the success answer. *)
C6_CloseReasonByStoredRow ==
    (last.op = "close_order_status" /\ LastOnStoredOrder /\ ~last.r.updated
     /\ last.r.status # NULL)
        => LET row == orders[last.r.order_id]
           IN  /\ last.text \in {AckOtherAdminClosed, AckAlreadyClosed,
                                 AckCustomerCanceled, AckAlreadyCanceled}
               /\ last.text # AckClosed
               /\ (row.status = "closed" /\ row.closed_by \notin {NoId, last.chat})
                      <=> last.text = AckOtherAdminClosed
               /\ (row.status = "closed" /\ row.closed_by = last.chat)
                      => last.text = AckAlreadyClosed
               /\ (row.status = "canceled" /\ row.canceled_by_role = "user")
                      <=> last.text = AckCustomerCanceled

(* C6 witness: a close attempt on an order another admin had closed *)
C6_Witness ==
    /\ last.op = "close_order_status"
    /\ LastOnStoredOrder
    /\ ~last.r.updated
    /\ orders[last.r.order_id].status = "closed"
    /\ orders[last.r.order_id].closed_by \notin {NoId, last.chat}

(* C7: once order_price_per_kg of an order is set, no step changes it: not a
   price edit, not update_product, not the product's deletion, not a status
   transition, not init_db run again. *)
C7_FrozenPriceIsKept ==
    [][\A o \in DOMAIN orders :
          (orders[o].order_price_per_kg # NoPrice /\ o \in DOMAIN orders')
              => orders'[o].order_price_per_kg = orders[o].order_price_per_kg]_vars

(* C7 witness: an ended order of a deleted product whose frozen price is not
   the product's current price *)
C7_Witness ==
    \E o \in DOMAIN orders :
        /\ orders[o].order_price_per_kg \notin {NoPrice, products[orders[o].product_id].price_per_kg}
        /\ products[orders[o].product_id].is_deleted
        /\ Terminal(orders[o])
        /\ booted

(* C8: for every order with a frozen price, the total its message shows is the
   parsed kilogram quantity times the frozen price, whatever the product's
   current price is. *)
C8_TotalUsesFrozenPrice ==
    \A o \in DOMAIN orders : \A order \in get_order_with_details(o) :
        LET qty_kg == parse_quantity_to_kg(order.quantity)
        IN  (order.order_price_per_kg # NoPrice /\ qty_kg.ok)
                => format_order_message(order) =
                       format_money_with_commas(Times(qty_kg.v, order.order_price_per_kg))
                           \o Sum

(* The chat whose confirm callback inserted the order of this step *)
InsertedBy(c, state) == fsm[c] = state /\ fsm'[c] = "idle"

(* C9 as stated: every inserted order row, of the user order flow and of the
   admin-assisted order flow, has status 'open' and closed_at and closed_by
   unset. *)
C9_EveryOrderStartsOpen ==
    [][\A o \in DOMAIN orders' \ DOMAIN orders :
          /\ orders'[o].status = "open"
          /\ orders'[o].closed_at = NoTime
          /\ orders'[o].closed_by = NoId]_vars

(* C9 amended: a row inserted by the user order flow has status 'open' and
   closed_at and closed_by unset; a row inserted by the admin-assisted order
   flow has status 'closed', closed_at equal to its creation time and
   closed_by the creating admin. *)
C9_OrderStartsByItsFlow ==
    [][\A o \in DOMAIN orders' \ DOMAIN orders :
          LET row == orders'[o]
          IN  /\ \A c \in FlowChats :
                    InsertedBy(c, "OrderStates:confirm")
                        => /\ row.status = "open"
                           /\ row.closed_at = NoTime
                           /\ row.closed_by = NoId
              /\ \A c \in FlowChats :
                    InsertedBy(c, "AdminOrderStates:confirm")
                        => /\ row.status = "closed"
                           /\ row.closed_at = row.created_at
                           /\ row.closed_at = now
                           /\ row.closed_by = c
              /\ \E c \in FlowChats :
                    \/ InsertedBy(c, "OrderStates:confirm")
                    \/ InsertedBy(c, "AdminOrderStates:confirm")]_vars

(* C9 witness: an order the admin-assisted flow created, closed from the start *)
C9_Witness ==
    \E o \in DOMAIN orders :
        /\ orders[o].status = "closed"
        /\ orders[o].closed_by \in FlowAdmins
        /\ orders[o].closed_at = orders[o].created_at
        /\ now > 1

(* C10: when the owning user's cancel reaches its UPDATE while the order is
   open, the order becomes canceled, canceled_by_role 'user', closed_at set to
   the time of the call, closed_by NULL. *)
C10_UserCancel ==
    [][\A c \in ChatIds :
          (/\ call[c].pc = "update"
           /\ call[c].fn = "cancel_order_by_user"
           /\ call'[c].pc = "idle"
           /\ last'.op = "confirm_user_cancel_order"
           /\ call[c].order_id \in DOMAIN orders
           /\ orders[call[c].order_id].status = "open"
           /\ orders[call[c].order_id].user_id = call[c].user_id)
              => LET row == orders'[call[c].order_id]
                 IN  /\ row.status = "canceled"
                     /\ row.canceled_by_role = "user"
                     /\ row.closed_at = call[c].now
                     /\ row.closed_at # NoTime
                     /\ row.closed_by = NoId]_vars

(* C10 witness: an order its owner has canceled *)
C10_Witness ==
    \E o \in DOMAIN orders :
        /\ orders[o].status = "canceled"
        /\ orders[o].canceled_by_role = "user"
        /\ last.op = "confirm_user_cancel_order"
        /\ last.r.updated

(* The users row of chat c; NoId when there is none *)
UserOf(c) ==
    IF get_user_by_tg_id(c) = {} THEN NoId ELSE CHOOSE u \in get_user_by_tg_id(c) : TRUE

(* C11: a user's cancel of an order that is not theirs goes no further than
   the SELECT, returns updated=False, and leaves the orders table as it was,
   whatever the order's status. *)
C11_OnlyOwnerCancels ==
    [][\A c \in ChatIds :
          /\ (/\ call[c].pc = "idle"
              /\ last' # last
              /\ last'.chat = c
              /\ last'.r.fn = "cancel_order_by_user"
              /\ last'.r.order_id \in DOMAIN orders
              /\ orders[last'.r.order_id].user_id # UserOf(c))
                 => (~last'.r.updated /\ orders' = orders /\ call'[c].pc = "idle")
          /\ (/\ call[c].pc = "idle"
              /\ call'[c].pc = "update"
              /\ call'[c].fn = "cancel_order_by_user")
                 => orders[call'[c].order_id].user_id = UserOf(c)
          /\ (call[c].pc = "update" /\ call[c].fn = "cancel_order_by_user"
              /\ call'[c].pc = "idle")
                 => \A o \in DOMAIN orders :
                        orders[o].user_id # call[c].user_id => orders'[o] = orders[o]]_vars

(* C11 witness: a user's cancel of another user's open order was refused *)
C11_Witness ==
    /\ last.r.fn = "cancel_order_by_user"
    /\ ~last.r.updated
    /\ last.r.order_id \in DOMAIN orders
    /\ orders[last.r.order_id].user_id # UserOf(last.chat)
    /\ orders[last.r.order_id].status = "open"

(* C12: when an admin's UPDATE runs on an order that is open, a close leaves
   status 'closed', closed_at the time the call read, closed_by the admin and
   canceled_by_role unset; a cancel leaves status 'canceled', closed_by the
   admin and canceled_by_role 'admin'. *)
C12_AdminTransitionRecordsCloser ==
    [][\A c \in ChatIds :
          (/\ call[c].pc = "update"
           /\ call[c].fn = "update_order_status"
           /\ call'[c].pc = "idle"
           /\ call[c].order_id \in DOMAIN orders
           /\ orders[call[c].order_id].status = "open")
              => LET row == orders'[call[c].order_id]
                 IN  /\ row.status = call[c].new_status
                     /\ row.closed_at = call[c].now
                     /\ row.closed_at # NoTime
                     /\ row.closed_by = c
                     /\ call[c].new_status = "closed" => row.canceled_by_role = NULL
                     /\ call[c].new_status = "canceled" => row.canceled_by_role = "admin"
                     /\ last'.r.updated]_vars

(* C12 witness: an order an admin canceled, with the admin as its closer *)
C12_Witness ==
    /\ last.op = "cancel_order_status"
    /\ last.r.updated
    /\ LastOnStoredOrder
    /\ orders[last.r.order_id].status = "canceled"
    /\ orders[last.r.order_id].closed_by = last.chat
    /\ orders[last.r.order_id].canceled_by_role = "admin"

(* C13: when an admin whose delete flow holds the id of an existing order taps
   the delete-confirm button, the order row is gone afterwards and the admin
   is sent the deletion acknowledgement. *)
C13_DeleteRemovesOrder ==
    [][\A c \in ChatIds :
          (/\ fsm[c] = "OrderDeleteStates:confirm"
           /\ is_admin(c)
           /\ Has(data[c], "order_id")
           /\ data[c].order_id \in DOMAIN orders
           /\ last' # last
           /\ last'.op = "confirm_order_delete"
           /\ last'.chat = c)
              => /\ data[c].order_id \notin DOMAIN orders'
                 /\ last'.text = AckOrderDeleted]_vars

(* C14: the order_price_per_kg of an order row, right after its INSERT by the
   user order flow or by the admin-assisted order flow, is the product's
   price_per_kg at that moment. *)
C14_PriceIsSnapshot ==
    [][\A o \in DOMAIN orders' \ DOMAIN orders :
          /\ orders'[o].product_id \in DOMAIN products
          /\ orders'[o].order_price_per_kg = products[orders'[o].product_id].price_per_kg
          /\ orders'[o].order_price_per_kg = products'[orders'[o].product_id].price_per_kg
          /\ orders'[o].order_price_per_kg # NoPrice]_vars

(* C14 witness: an order the admin-assisted flow created after a price edit,
   frozen at the edited price *)
C14_Witness ==
    \E o \in DOMAIN orders :
        /\ orders[o].status = "closed"
        /\ orders[o].order_price_per_kg = 150
        /\ products[orders[o].product_id].price_per_kg = 150
        /\ fsm = [c \in ChatIds |-> "idle"]

(* C15: every order the user order flow inserts belongs to a users row that
   exists and has a phone at the time of the INSERT. *)
C15_OrdersOfRegisteredUsers ==
    [][\A o \in DOMAIN orders' \ DOMAIN orders :
          \A c \in FlowChats :
              InsertedBy(c, "OrderStates:confirm")
                  => /\ orders'[o].user_id \in DOMAIN users
                     /\ users[orders'[o].user_id].tg_id = c
                     /\ ensure_user_registered(c)]_vars

(* The tonnes, in hundredths, of a stored quantity text "<n> tonna" *)
StoredTons(quantity) == parse_quantity_to_tons(SubSeq(quantity, 1, Len(quantity) - Len(Tonna)))

(* C16: every order the user order flow inserts has a quantity of at least 2
   tonnes, and a text in the quantity step that is not a plain number or is
   below 2 leaves the step, the scratch data and the orders as they were. *)
C16_MinimumTonnage ==
    [][/\ \A o \in DOMAIN orders' \ DOMAIN orders :
             (\E c \in FlowChats : InsertedBy(c, "OrderStates:confirm"))
                 => /\ StoredTons(orders'[o].quantity).ok
                    /\ StoredTons(orders'[o].quantity).v >= 200
                    /\ parse_quantity_to_kg(orders'[o].quantity).v >= 200000
       /\ \A c \in FlowChats, t \in QuantityTexts :
             (/\ order_quantity(c, t)
              /\ ~is_cancel_message(t)
              /\ \/ ~parse_quantity_to_tons(t).ok
                 \/ parse_quantity_to_tons(t).v < 200)
                 => /\ fsm'[c] = "OrderStates:quantity"
                    /\ data' = data
                    /\ orders' = orders]_vars

(* C16 witness: an order of the user order flow, stored after its chat passed
   the quantity step *)
C16_Witness ==
    \E o \in DOMAIN orders :
        /\ orders[o].status = "open"
        /\ StoredTons(orders[o].quantity).v = 230
        /\ \E c \in FlowChats : fsm[c] = "OrderStates:quantity"

TwoCommaThree == <<"2", ",", "3">>
TwoPointThreeTonna == <<"2", ".", "3", " ", "t", "o", "n", "n", "a">>

(* C17: the quantity step turns the input "2,3" into the stored text
   "2.3 tonna", and the total shown for an order with a stored text
   "<n> tonna" is n * 1000 times the per-kilogram price of the message. *)
C17_CommaQuantityInKilograms ==
    /\ [][\A c \in FlowChats :
             order_quantity(c, TwoCommaThree) => data'[c].quantity = TwoPointThreeTonna]_vars
    /\ [](\A o \in DOMAIN orders : \A order \in get_order_with_details(o) :
             /\ StoredTons(order.quantity).ok
             /\ format_order_message(order) =
                    format_money_with_commas(
                        Times(StoredTons(order.quantity).v * 1000, PriceOf(order))) \o Sum
             /\ order.quantity = TwoPointThreeTonna
                    => format_order_message(order) =
                           format_money_with_commas(Times(230000, PriceOf(order))) \o Sum)

(* C17 witness: an order entered as "2,3" at 1.5 per kilogram shows 3,450 *)
C17_Witness ==
    \E o \in DOMAIN orders : \E order \in get_order_with_details(o) :
        /\ order.quantity = TwoPointThreeTonna
        /\ order.order_price_per_kg = 150
        /\ format_order_message(order) = <<"3", ",", "4", "5", "0">> \o Sum

(* C18 as stated: a quantity text the step has normalized, passed through
   parse_quantity_to_tons and the "<n> tonna" formatting again, comes out as
   the same text. *)
C18_NormalizationIsIdempotent ==
    \A c \in FlowChats :
        Has(data[c], "quantity")
            => LET qty_tons == parse_quantity_to_tons(data[c].quantity)
               IN  /\ qty_tons.ok
                   /\ format_price(qty_tons.v) \o Tonna = data[c].quantity

(* C18 amended: the number <n> of a normalized text "<n> tonna" is accepted
   and normalizes to the same text again; the normalized text itself, with
   its unit, is not a plain number and the quantity step rejects it. *)
C18_NumberPartIsIdempotent ==
    /\ [](\A c \in FlowChats :
             Has(data[c], "quantity")
                 => /\ StoredTons(data[c].quantity).ok
                    /\ format_price(StoredTons(data[c].quantity).v) \o Tonna
                           = data[c].quantity
                    /\ ~parse_quantity_to_tons(data[c].quantity).ok)
    /\ [][\A c \in FlowChats :
             (Has(data[c], "quantity") /\ order_quantity(c, data[c].quantity))
                 => UNCHANGED <<fsm, data>>]_vars

(* C18 witness: a quantity spelled "2,30" was stored as "2.3 tonna", and its
   chat is in the quantity step again *)
C18_Witness ==
    \E c \in FlowChats :
        /\ Has(data[c], "quantity")
        /\ data[c].quantity = TwoPointThreeTonna
        /\ fsm[c] = "OrderStates:quantity"

----------------------------------------------------------------------------
(* Properties of the dispatcher *)

(* C19: from every step of every conversation flow, a message whose text is
   the cancel button returns the chat's FSM to the idle state and empties
   its scratch data. *)
C19_CancelReturnsToIdle ==
    [][\A c \in FlowChats :
          (fsm[c] # "idle" /\ message(c, BTN_CANCEL))
              => (fsm'[c] = "idle" /\ data'[c] = EmptyData)]_vars

(* The steps that have a message handler for any text, and that handler *)
TextSteps ==
    {Registered[k].state : k \in {i \in 1 .. Len(Registered) :
                                     Registered[i].state # "*" /\ Registered[i].kind = "any"}}

StepHandler(state) ==
    Registered[CHOOSE k \in 1 .. Len(Registered) :
                   Registered[k].state = state /\ Registered[k].kind = "any"].fn

(* C20: while a chat's FSM is in a step that expects a text reply, every
   text message of the chat is handled by the handler of that step, whatever
   the text is; no menu-button handler takes it by matching the text. *)
C20_StepHandlerTakesEveryText ==
    \A c \in FlowChats :
        fsm[c] \in TextSteps =>
            \A t \in MenuTexts \cup ReplyTexts \cup {SlashStart} :
                Handler(fsm[c], t) = StepHandler(fsm[c])

----------------------------------------------------------------------------
(* Properties of input validation *)

(* A date as one number that grows with the calendar *)
DayNumber(date) == (date.y * 10000) + (date.m * 100) + date.d

(* The inputs a validating step answers with an error: text in the step
   state, with scratch data d *)
Malformed(state, d, text) ==
    CASE state = "OrderStates:quantity" ->
             ~parse_quantity_to_tons(text).ok \/ parse_quantity_to_tons(text).v < 200
      [] state = "AdminOrderStates:phone" -> normalize_phone(Strip(text)) = <<>>
      [] state \in {"AdminOrderStates:name", "AdminOrderStates:address"} -> Strip(text) = <<>>
      [] state = "AdminOrderStates:quantity" ->
             ~parse_quantity_to_tons(text).ok \/ parse_quantity_to_tons(text).v <= 0
      [] state = "AddProductStates:price" -> ~parse_price(text).ok
      [] state = "EditProductStates:value" -> d.field = "price" /\ ~parse_price(text).ok
      [] state = "ReportStates:start_date" -> ~parse_report_date(text).ok
      [] state = "ReportStates:end_date" ->
             \/ ~parse_report_date(text).ok
             \/ DayNumber(parse_report_date(text)) < DayNumber(StrptimeYmd(d.report_start))
      [] state = "BlockUserStates:action" -> Strip(text) \notin {BTN_BLOCK, BTN_UNBLOCK}
      [] state = "BlockUserStates:phone" -> find_user_by_phone(text) = {}
      [] state \in {"OrderSearchStates:order_id", "OrderDeleteStates:order_id"} ->
             ~FirstNumber(text).ok \/ get_order_with_details(FirstNumber(text).v) = {}
      [] OTHER -> FALSE

(* The phone of a user whom the block step refuses to block *)
PhoneOfAdmin(state, text) ==
    /\ state = "BlockUserStates:phone"
    /\ find_user_by_phone(text) # {}
    /\ is_admin(users[First(find_user_by_phone(text))].tg_id)

(* A message of chat c with text left everything a flow can change alone *)
KeptStep(c) == UNCHANGED <<fsm, data, users, products, orders>>

----------------------------------------------------------------------------
(* The media groups of the broadcast flow: an album reaches the bot as one
   message per part, all with the same media_group_id *)

MaxParts == 3

(* {"type": "photo", "file_id": ...}: the file id names the album and the part *)
MediaItem(g, n) == [type |-> "photo", file_id |-> <<g, n>>]

(* the default of media_group_buffer.setdefault(message.from_user.id, ...) *)
NewEntry == [media_items |-> <<>>, caption |-> NoText, finalized |-> FALSE, timer |-> FALSE]

setdefault(c) == IF c \in DOMAIN media_group_buffer THEN media_group_buffer[c] ELSE NewEntry

(* buffer_entry.get("timer") *)
HasTimerNever(entry) == FALSE
HasTimer(entry) == entry.timer

(* BroadcastPayload(kind="media_group", caption=..., media_items=...) *)
MediaGroupPayload(entry) ==
    [kind |-> "media_group", caption |-> entry.caption, media_items |-> entry.media_items]

(* The payload holds the list object of the buffer entry, so an append to the
   entry shows in a payload already stored in the FSM data *)
Aliased(d, items) ==
    IF Has(d, "broadcast_payload") /\ d.broadcast_payload.kind = "media_group"
    THEN Put([broadcast_payload |-> [d.broadcast_payload EXCEPT !.media_items = items]], d)
    ELSE d

(* broadcast_content: a photo of media group g in BroadcastStates.content *)
broadcast_content_media_group(c, g) ==
    /\ Reaches(c)
    /\ fsm[c] = "BroadcastStates:content"
    /\ Len(setdefault(c).media_items) < MaxParts
    /\ LET entry == setdefault(c)
           items == Append(entry.media_items, MediaItem(g, Len(entry.media_items) + 1))
       IN /\ media_group_buffer' =
                (c :> [entry EXCEPT !.media_items = items, !.timer = TRUE]) @@ media_group_buffer
          /\ tasks' = IF HasTimer(entry) THEN tasks
                      ELSE [tasks EXCEPT ![c].asleep = @ + 1]
          /\ data' = [data EXCEPT ![c] = Aliased(@, items)]
    /\ UNCHANGED <<booted, now, users, products, orders, fsm, call, last, succeeded,
                   prompts, delivered>>

(* handle_media_group_timeout after asyncio.sleep(1.2), up to the await of
   bot.send_message *)
handle_media_group_timeout(c) ==
    /\ booted
    /\ tasks[c].asleep > 0
    /\ IF c \notin DOMAIN media_group_buffer \/ media_group_buffer[c].finalized
       THEN /\ tasks' = [tasks EXCEPT ![c].asleep = @ - 1]
            /\ UNCHANGED <<media_group_buffer, data>>
       ELSE /\ tasks' = [tasks EXCEPT ![c].asleep = @ - 1, ![c].sending = @ + 1]
            /\ media_group_buffer' = [media_group_buffer EXCEPT ![c].finalized = TRUE]
            /\ data' = [data EXCEPT ![c] =
                            Put([broadcast_payload |-> MediaGroupPayload(media_group_buffer[c])], @)]
    /\ UNCHANGED <<booted, now, users, products, orders, fsm, call, last, succeeded,
                   prompts, delivered>>

(* the media group ids of the parts in a list of media items *)
GroupsOf(items) == {items[i].file_id[1] : i \in 1 .. Len(items)}

(* handle_media_group_timeout from the prompt sent by bot.send_message to
   state.set_state(BroadcastStates.confirm) *)
handle_media_group_timeout_prompt(c) ==
    /\ booted
    /\ tasks[c].sending > 0
    /\ tasks' = [tasks EXCEPT ![c].sending = @ - 1]
    /\ prompts' = [prompts EXCEPT ![c] =
                      [g \in MediaGroupIds |->
                          IF g \in GroupsOf(media_group_buffer[c].media_items)
                          THEN @[g] + 1 ELSE @[g]]]
    /\ fsm' = [fsm EXCEPT ![c] = "BroadcastStates:confirm"]
    /\ UNCHANGED <<booted, now, users, products, orders, data, call, last, succeeded,
                   media_group_buffer, delivered>>

AlbumTexts == {Ha, <<"y", "o", "q">>, BTN_BROADCAST}

InitAlbum ==
    /\ booted = TRUE
    /\ users = InitUsers
    /\ products = InitProducts
    /\ orders = [o \in OrderIds |-> OpenOrder(1, 1, TwoTonna, 1000, 1)]
    /\ InitProcess

NextAlbum ==
    \/ \E c \in FlowAdmins : broadcast_start(c)
    \/ \E c \in FlowAdmins, g \in MediaGroupIds : broadcast_content_media_group(c, g)
    \/ \E c \in FlowAdmins, text \in AlbumTexts : broadcast_content(c, text)
    \/ \E c \in FlowAdmins, text \in AlbumTexts : broadcast_confirm(c, text)
    \/ \E c \in FlowAdmins : handle_media_group_timeout(c)
    \/ \E c \in FlowAdmins : handle_media_group_timeout_prompt(c)

(* The event loop runs every task whose sleep or send has completed *)
SpecAlbum ==
    /\ InitAlbum
    /\ [][NextAlbum]_vars
    /\ \A c \in FlowAdmins : WF_vars(handle_media_group_timeout(c))
    /\ \A c \in FlowAdmins : WF_vars(handle_media_group_timeout_prompt(c))

----------------------------------------------------------------------------
(* Properties of the media-group buffer *)

(* a part of media group g of admin c is in the buffer *)
Submitted(c, g) ==
    /\ c \in DOMAIN media_group_buffer
    /\ g \in GroupsOf(media_group_buffer[c].media_items)

(* C22: every media group an admin submits in the broadcast content step is
   eventually finalized: the confirmation prompt for a payload holding its
   parts is sent, in the first composition and in every later one *)
C22_EveryBatchFinalized ==
    \A c \in ADMIN_LIST, g \in MediaGroupIds : Submitted(c, g) ~> (prompts[c][g] >= 1)

(* C23: at most one finalize task runs per buffer entry, and the prompt for
   the parts of a media group is sent, and its payload stored, at most once *)
C23_FinalizedAtMostOnce ==
    \A c \in ADMIN_LIST :
        /\ tasks[c].asleep + tasks[c].sending <= 1
        /\ \A g \in MediaGroupIds : prompts[c][g] <= 1

C23_Witness ==
    /\ 1 \in DOMAIN media_group_buffer
    /\ media_group_buffer[1].finalized
    /\ Len(media_group_buffer[1].media_items) >= 2
    /\ prompts[1][1] = 1
    /\ fsm[1] = "BroadcastStates:confirm"
    /\ Has(data[1], "broadcast_payload")
    /\ data[1].broadcast_payload.kind = "media_group"
    /\ data[1].broadcast_payload.media_items = media_group_buffer[1].media_items

----------------------------------------------------------------------------
(* The date-range report *)

(* date(...) of SQLite on a stored timestamp: the clock of this model has two
   readings per day, so readings 2 and 3 are the morning and the evening of
   day 1 and reading 4 is the morning of day 2 *)
date(t) == t \div 2

ReportDays == 0 .. 2

(* COALESCE(orders.closed_at, orders.created_at) *)
Coalesce(order) == IF order.closed_at # NoTime THEN order.closed_at ELSE order.created_at

(* The columns list_orders_for_report selects for one order *)
ReportRow(o) ==
    [id |-> o,
     quantity |-> orders[o].quantity,
     created_at |-> orders[o].created_at,
     order_price_per_kg |-> orders[o].order_price_per_kg,
     user_id |-> orders[o].user_id,
     phone |-> users[orders[o].user_id].phone,
     product_price_per_kg |-> products[orders[o].product_id].price_per_kg]

(* the rows of a set of orders, ORDER BY orders.created_at ASC *)
OrderedByCreatedAt(ids) ==
    LET n == Cardinality(ids)
        s == CHOOSE f \in [1 .. n -> ids] :
                 /\ \A i, j \in 1 .. n : i # j => f[i] # f[j]
                 /\ \A i, j \in 1 .. n :
                        i < j => \/ orders[f[i]].created_at < orders[f[j]].created_at
                                 \/ /\ orders[f[i]].created_at = orders[f[j]].created_at
                                    /\ f[i] < f[j]
    IN  [i \in 1 .. n |-> ReportRow(s[i])]

(* db.list_orders_for_report(start_at, end_at) *)
list_orders_for_report(start_at, end_at) ==
    OrderedByCreatedAt(
        {o \in DOMAIN orders :
            /\ orders[o].user_id \in DOMAIN users
            /\ orders[o].product_id \in DOMAIN products
            /\ orders[o].status = "closed"
            /\ date(Coalesce(orders[o])) >= start_at
            /\ date(Coalesce(orders[o])) <= end_at})

(* calculate_report_stats: a row is skipped when its quantity or its price
   is None *)
Counted(row) == parse_quantity_to_kg(row.quantity).ok /\ PriceOf(row) # NoPrice

RECURSIVE SumOf(_, _)
SumOf(f, S) == IF S = {} THEN 0
               ELSE LET x == CHOOSE y \in S : TRUE IN f[x] + SumOf(f, S \ {x})

(* sorted(per_client_product.values(), key=amount, reverse=True): a stable
   sort of the entries in the order their keys were first met *)
SortedEntries(entries) ==
    LET n == Len(entries)
        p == CHOOSE f \in [1 .. n -> 1 .. n] :
                 /\ \A i, j \in 1 .. n : i # j => f[i] # f[j]
                 /\ \A i, j \in 1 .. n :
                        i < j => \/ entries[f[i]].amount > entries[f[j]].amount
                                 \/ /\ entries[f[i]].amount = entries[f[j]].amount
                                    /\ f[i] < f[j]
    IN  [i \in 1 .. n |-> entries[p[i]]]

(* sqlite3.Row: row[key] raises IndexError for a column the query did not select *)
RowHas(row, key) == key \in DOMAIN row

Raised(error) == [ok |-> FALSE, error |-> error, total_sum |-> 0, total_tons |-> 0,
                  entries |-> <<>>]

(* calculate_report_stats: amount = qty_kg * price_per_kg, tons = qty_kg / 1000 *)
AmountOf(row) == Times(parse_quantity_to_kg(row.quantity).v, PriceOf(row))
TonsOf(row) == parse_quantity_to_kg(row.quantity).v \div 1000

(* calculate_report_stats: key = (row["user_id"], row["product_name"]) *)
KeyOf(row) == <<row.user_id, row.product_name>>

(* the k-th smallest member of a set of row indexes *)
Nth(S, k) == CHOOSE i \in S : Cardinality({j \in S : j < i}) = k - 1

(* calculate_report_stats: the entry of the key of row i, summed over the
   counted rows with that key *)
EntryOf(rows, counted, i) ==
    LET same == {j \in counted : KeyOf(rows[j]) = KeyOf(rows[i])}
    IN  [user_id |-> rows[i].user_id,
         product |-> rows[i].product_name,
         tons |-> SumOf([j \in same |-> TonsOf(rows[j])], same),
         amount |-> SumOf([j \in same |-> AmountOf(rows[j])], same)]

(* calculate_report_stats(rows) *)
calculate_report_stats(rows) ==
    LET counted == {i \in 1 .. Len(rows) : Counted(rows[i])}
        firsts == {i \in counted : \A j \in counted : KeyOf(rows[j]) = KeyOf(rows[i]) => i <= j}
    IN  IF \E i \in counted : ~RowHas(rows[i], "product_name") THEN Raised("IndexError")
        ELSE [ok |-> TRUE, error |-> "",
              total_sum |-> SumOf([i \in counted |-> AmountOf(rows[i])], counted),
              total_tons |-> SumOf([i \in counted |-> TonsOf(rows[i])], counted),
              entries |-> SortedEntries([k \in 1 .. Cardinality(firsts) |->
                                           EntryOf(rows, counted, Nth(firsts, k))])]

(* build_report_payload: the rows of the period and their statistics *)
build_report_payload(start_date, end_date) ==
    LET rows == list_orders_for_report(start_date, end_date)
        stats == calculate_report_stats(rows)
    IN  [start_date |-> start_date, end_date |-> end_date,
         rows |-> {rows[i].id : i \in 1 .. Len(rows)}, stats |-> stats]

ReportReady == "Hisobot tayyor"
ReportFailed == "Hisobot tayyorlashda xatolik yuz berdi"

(* send_report_for_period: the summary and the file, or the error message when
   build_report_payload raised *)
send_report_for_period(c, start_date, end_date) ==
    /\ booted
    /\ can_view_reports(c)
    /\ LET payload == build_report_payload(start_date, end_date)
       IN  last' = Answered("report", c, payload,
                            IF payload.stats.ok THEN ReportReady ELSE ReportFailed)
    /\ UNCHANGED <<booted, now, users, products, orders, fsm, data, call, succeeded, Broadcasts>>

ReportOrders ==
    {[user_id |-> u, product_id |-> 1, quantity |-> TwoTonna, created_at |-> at,
      status |-> s, order_price_per_kg |-> 1000, closed_at |-> closed,
      closed_by |-> IF s = "closed" THEN 1 ELSE NoId, canceled_by_role |-> NULL]
        : u \in DOMAIN InitUsers, at \in {1, 3}, s \in {"open", "closed", "canceled"},
          closed \in {NoTime, 3, 4}}

(* the rows the program can store: closed_at is set on closed orders only,
   and never before created_at *)
StoredOrders ==
    {order \in ReportOrders :
        /\ order.status # "closed" => order.closed_at = NoTime
        /\ order.closed_at # NoTime => order.closed_at >= order.created_at}

InitReport ==
    /\ booted = TRUE
    /\ users = InitUsers
    /\ products = InitProducts
    /\ \E first \in StoredOrders, second \in StoredOrders : orders = <<first, second>>
    /\ InitProcess

NextReport ==
    \E c \in REPORT_LIST, start_date \in ReportDays, end_date \in ReportDays :
        /\ start_date <= end_date
        /\ send_report_for_period(c, start_date, end_date)

SpecReport == InitReport /\ [][NextReport]_vars

----------------------------------------------------------------------------
(* Properties of the report *)

(* the closed orders whose effective date lies in the period *)
InPeriod(start_date, end_date) ==
    {o \in DOMAIN orders :
        /\ orders[o].status = "closed"
        /\ date(Coalesce(orders[o])) \in start_date .. end_date}

(* the orders a sent report accounts for: those of its rows, when it was made *)
Covers(report) == IF report.stats.ok THEN report.rows ELSE {}

(* C24: a report for a period covers exactly the closed orders whose
   closed_at, or created_at when closed_at is NULL, lies in the period, both
   ends included *)
C24_ReportCoversClosedInPeriod ==
    last.op = "report" => Covers(last.r) = InPeriod(last.r.start_date, last.r.end_date)

(* the (user, product name) pairs of a set of orders *)
PairsOf(ids) == {<<orders[o].user_id, products[orders[o].product_id].name>> : o \in ids}

(* C25: for a period with closed orders the report is made, with one entry
   per (user, product) pair of those orders, sorted by amount descending *)
C25_ReportAggregatesPairs ==
    (last.op = "report" /\ InPeriod(last.r.start_date, last.r.end_date) # {}) =>
        LET entries == last.r.stats.entries
        IN  /\ last.text = ReportReady
            /\ {<<entries[i].user_id, entries[i].product>> : i \in 1 .. Len(entries)}
                   = PairsOf(InPeriod(last.r.start_date, last.r.end_date))
            /\ Len(entries) = Cardinality(PairsOf(InPeriod(last.r.start_date, last.r.end_date)))
            /\ \A i, j \in 1 .. Len(entries) :
                   i < j => entries[i].amount >= entries[j].amount

----------------------------------------------------------------------------
(* The broadcast fan-out *)

FanOutUsers ==
    (1 :> RegisteredUser(11, <<"9", "0", "1">>))
    @@ (2 :> [RegisteredUser(12, <<"9", "0", "2">>) EXCEPT !.is_blocked = TRUE])
    @@ (3 :> RegisteredUser(1, AdminPhone))

FanOutTexts == {Ha, <<"y", "o", "q">>, <<"1">>}

InitFanOut ==
    /\ booted = TRUE
    /\ \E n \in 0 .. 3 : users = [u \in 1 .. n |-> FanOutUsers[u]]
    /\ products = InitProducts
    /\ orders = [o \in OrderIds |-> OpenOrder(1, 1, TwoTonna, 1000, 1)]
    /\ InitProcess

NextFanOut ==
    \/ \E c \in FlowAdmins : broadcast_start(c)
    \/ \E c \in FlowAdmins, text \in FanOutTexts : broadcast_content(c, text)
    \/ \E c \in FlowAdmins, text \in FanOutTexts : broadcast_confirm(c, text)

SpecFanOut == InitFanOut /\ [][NextFanOut]_vars

(* C26: a confirmed broadcast attempts every user row exactly once, whatever
   sends fail; success + failed is the number of users and the flow is idle *)
C26_FanOutReachesEveryUser ==
    [][\A c \in FlowAdmins :
          (Has(data[c], "broadcast_payload") /\ broadcast_confirm(c, Ha)) =>
              LET report == delivered'[1]
              IN  /\ Len(report.attempts) = Cardinality(DOMAIN users)
                  /\ \A u \in DOMAIN users :
                         Cardinality({i \in 1 .. Len(report.attempts) :
                                         report.attempts[i] = u}) = 1
                  /\ report.success + report.failed = Cardinality(DOMAIN users)
                  /\ report.failed =
                         Cardinality({u \in DOMAIN users : users[u].tg_id \in report.refused})
                  /\ fsm'[c] = "idle"
                  /\ data'[c] = EmptyData]_vars

C26_Witness ==
    /\ delivered # <<>>
    /\ Len(delivered[1].attempts) = 3
    /\ users[delivered[1].attempts[1]].tg_id \in delivered[1].refused
    /\ delivered[1].failed = 1
    /\ delivered[1].success = 2
    /\ fsm[delivered[1].chat] = "idle"

----------------------------------------------------------------------------
(* The catalogue under the events of an admin and of a plain user *)

CatalogueTexts == {<<"1", ",", "5">>, BTN_SKIP_PHOTOS, BTN_CANCEL}

(* the messages and callbacks of the catalogue handlers, sent by chat c *)
CatalogueEvent(c) ==
    \/ add_product_start(c)
    \/ \E text \in CatalogueTexts : add_product_name(c, text)
    \/ \E text \in CatalogueTexts : add_product_price(c, text)
    \/ \E text \in CatalogueTexts : add_product_description(c, text)
    \/ \E text \in CatalogueTexts : add_product_photos(c, text)
    \/ \E p \in DOMAIN products : edit_product_start(c, p)
    \/ \E field \in Fields \cup {"photos"} : edit_product_field(c, field)
    \/ \E text \in CatalogueTexts : edit_product_value(c, text)
    \/ \E text \in CatalogueTexts : edit_product_photos(c, text)
    \/ \E p \in DOMAIN products : confirm_product_delete(c, p)

InitCatalogue ==
    /\ booted = TRUE
    /\ users = InitUsers
    /\ products = InitProducts
    /\ orders = [o \in OrderIds |-> OpenOrder(1, 1, TwoTonna, 1000, 1)]
    /\ InitProcess

NextCatalogue ==
    \/ \E c \in FlowChats : add_product_start(c)
    \/ \E c \in FlowChats, text \in CatalogueTexts : add_product_name(c, text)
    \/ \E c \in FlowChats, text \in CatalogueTexts : add_product_price(c, text)
    \/ \E c \in FlowChats, text \in CatalogueTexts : add_product_description(c, text)
    \/ \E c \in FlowChats, text \in CatalogueTexts : add_product_photos(c, text)
    \/ \E c \in FlowChats, p \in DOMAIN products : edit_product_start(c, p)
    \/ \E c \in FlowChats, field \in Fields \cup {"photos"} : edit_product_field(c, field)
    \/ \E c \in FlowChats, text \in CatalogueTexts : edit_product_value(c, text)
    \/ \E c \in FlowChats, text \in CatalogueTexts : edit_product_photos(c, text)
    \/ \E c \in FlowChats, p \in DOMAIN products : confirm_product_delete(c, p)

SpecCatalogue == InitCatalogue /\ [][NextCatalogue]_vars

(* C27: no message or callback of a sender outside ADMIN_LIST changes the
   products table *)
C27_OnlyAdminsChangeProducts ==
    [][\A c \in FlowChats : (~is_admin(c) /\ CatalogueEvent(c)) => products' = products]_vars

----------------------------------------------------------------------------
(* Blocked users: the middlewares in front of the handlers.  main registers
   BlockedUserMiddleware before ActivityMiddleware, so it is the outer one:
   an event it rejects reaches neither ActivityMiddleware nor a handler. *)

MaxActivity == 2

(* db.update_last_active(tg_id), writing last_active only *)
update_last_active_only(tg_id) ==
    [u \in DOMAIN users |->
        IF users[u].tg_id = tg_id
        THEN [users[u] EXCEPT !.last_active = now]
        ELSE users[u]]

(* db.update_last_active(tg_id) *)
update_last_active(tg_id) ==
    [u \in DOMAIN users |->
        IF users[u].tg_id = tg_id
        THEN [users[u] EXCEPT !.last_active = now, !.activity_count = @ + 1]
        ELSE users[u]]

(* ActivityMiddleware on a message in a private chat that passed
   BlockedUserMiddleware; the handler of the message is the step after it *)
ActivityMiddleware(c) ==
    /\ Reaches(c)
    /\ \A u \in get_user_by_tg_id(c) : users[u].activity_count < MaxActivity
    /\ users' = update_last_active(c)
    /\ UNCHANGED <<products, orders, fsm, data, Rest>>

BlockedText == "Siz bloklangansiz"

(* BlockedUserMiddleware on a message or callback of a blocked user: the
   event is answered and returned *)
blocked_event(c) ==
    /\ booted
    /\ ~BlockedUserMiddleware(c)
    /\ Answer("blocked", c, NoReturn, BlockedText)
    /\ UNCHANGED <<booted, now, users, products, orders, fsm, data, call, succeeded, Broadcasts>>

InitBlocked ==
    /\ booted = TRUE
    /\ users = [u \in DOMAIN InitUsers |->
                   InitUsers[u] @@ [last_active |-> 1, activity_count |-> 0]]
    /\ products = InitProducts
    /\ orders = [o \in {} |-> LegacyOrder]
    /\ InitProcess

(* the messages and callbacks of user c *)
EventBy(c) ==
    \/ blocked_event(c)
    \/ ActivityMiddleware(c)
    \/ \E p \in ProductIds : order_start(c, p)
    \/ \E text \in QuantityTexts : order_quantity(c, text)
    \/ \E text \in AddressTexts : order_address(c, text)
    \/ confirm_order(c)
    \/ cancel_order(c)

NextBlocked ==
    \/ Tick
    \/ \E c \in FlowUsers : blocked_event(c)
    \/ \E c \in FlowUsers : ActivityMiddleware(c)
    \/ \E c \in FlowUsers, p \in ProductIds : order_start(c, p)
    \/ \E c \in FlowUsers, text \in QuantityTexts : order_quantity(c, text)
    \/ \E c \in FlowUsers, text \in AddressTexts : order_address(c, text)
    \/ \E c \in FlowUsers : confirm_order(c)
    \/ \E c \in FlowUsers : cancel_order(c)
    \/ \E c \in FlowAdmins : Opens(c) /\ block_users_menu(c)
    \/ \E c \in FlowAdmins, text \in {BTN_BLOCK, BTN_UNBLOCK} : block_users_choose_action(c, text)
    \/ \E c \in FlowAdmins : block_users_apply(c, <<"9", "0", "1">>)

SpecBlocked == InitBlocked /\ [][NextBlocked]_vars

(* C28: while a user outside ADMIN_LIST is blocked, a message or callback of
   that user changes neither an FSM state nor a row of any table *)
C28_BlockedUserChangesNothing ==
    [][\A c \in FlowUsers :
          (~is_admin(c) /\ is_user_blocked(c) /\ EventBy(c)) =>
              UNCHANGED <<users, products, orders, fsm, data>>]_vars

C28_Witness ==
    /\ is_user_blocked(11)
    /\ fsm[11] = "OrderStates:address"
    /\ last.op = "blocked"
    /\ last.chat = 11
    /\ \E u \in get_user_by_tg_id(11) : users[u].activity_count = 1

----------------------------------------------------------------------------
(* Properties of soft deletion *)

(* C29: the step that deletes a product hides it from list_products and
   get_product and leaves the result of every order query as it was; an
   order of a deleted product is returned with its frozen price and the
   product's name *)
C29_DeletedProductStaysReferenced ==
    /\ [][\A c \in FlowAdmins, p \in DOMAIN products :
             (get_product(p) # {} /\ confirm_product_delete(c, p)) =>
                 /\ p \notin list_products'
                 /\ get_product(p)' = {}
                 /\ list_orders_with_details' = list_orders_with_details
                 /\ \A o \in DOMAIN orders :
                        /\ get_order_with_details(o)' = get_order_with_details(o)
                        /\ list_orders_for_user(orders[o].user_id)'
                               = list_orders_for_user(orders[o].user_id)]_vars
    /\ [](booted => \A o \in DOMAIN orders :
             /\ \E row \in get_order_with_details(o) :
                    /\ row.order_price_per_kg = orders[o].order_price_per_kg
                    /\ row.product_name = InitProducts[orders[o].product_id].name
             /\ get_order_with_details(o) \subseteq list_orders_with_details
             /\ \E row \in list_orders_for_user(orders[o].user_id) : row.id = o)

C29_Witness ==
    \E o \in DOMAIN orders :
        /\ products[orders[o].product_id].is_deleted
        /\ orders[o].order_price_per_kg # NoPrice
        /\ orders[o].order_price_per_kg # products[orders[o].product_id].price_per_kg
        /\ get_product(orders[o].product_id) = {}
        /\ get_order_with_details(o) # {}

----------------------------------------------------------------------------
(* Orders of a product that disappears while the order is being entered: a
   second admin deletes the product, and a callback names a product id that
   has no row *)

InitAbort ==
    /\ booted = TRUE
    /\ users = InitUsers
    /\ products = InitProducts
    /\ orders = [o \in {} |-> LegacyOrder]
    /\ InitProcess

NextAbort ==
    \/ \E c \in FlowUsers, p \in ProductIds : Opens(c) /\ order_start(c, p)
    \/ \E c \in FlowUsers, t \in QuantityTexts : order_quantity(c, t)
    \/ \E c \in FlowUsers, t \in AddressTexts : order_address(c, t)
    \/ \E c \in FlowUsers, a \in GeocodeAnswers, l \in Locations :
           order_address_location(c, a, l)
    \/ \E c \in FlowUsers : confirm_order(c)
    \/ \E c \in FlowAdmins : Opens(c) /\ start_admin_order(c)
    \/ \E c \in FlowAdmins, t \in PhoneTexts : admin_order_phone(c, t)
    \/ \E c \in FlowAdmins, t \in NameTexts : admin_order_name(c, t)
    \/ \E c \in FlowAdmins, t \in AddressTexts : admin_order_address(c, t)
    \/ \E c \in FlowAdmins, p \in ProductIds : admin_order_product(c, p)
    \/ \E c \in FlowAdmins, t \in QuantityTexts : admin_order_quantity(c, t)
    \/ \E c \in FlowAdmins : confirm_admin_order(c)
    \/ \E c \in ADMIN_LIST \ FlowAdmins, p \in DOMAIN products : confirm_product_delete(c, p)

SpecAbort == InitAbort /\ [][NextAbort]_vars

(* the product of the order being entered has no row, or a deleted one *)
ProductGone(c) ==
    /\ Has(data[c], "product_id")
    /\ \/ data[c].product_id \notin DOMAIN products
       \/ products[data[c].product_id].is_deleted

(* C30: when the product of the order is missing or deleted, the address
   step (send_order_confirmation), the user's confirmation (finalize_order)
   and the admin's confirmation (confirm_admin_order) clear the FSM and
   insert no order *)
C30_GoneProductAbortsOrder ==
    [][\A c \in FlowChats :
          (/\ ProductGone(c)
           /\ \/ /\ fsm[c] = "OrderStates:address"
                 /\ \E t \in AddressTexts : order_address(c, t)
              \/ fsm[c] = "OrderStates:confirm" /\ confirm_order(c)
              \/ fsm[c] = "AdminOrderStates:confirm" /\ confirm_admin_order(c))
          => /\ fsm'[c] = "idle"
             /\ data'[c] = EmptyData
             /\ orders' = orders
             /\ users' = users]_vars

C30_Witness ==
    /\ products[1].is_deleted
    /\ orders = [o \in {} |-> LegacyOrder]
    /\ fsm[1] = "AdminOrderStates:confirm"
    /\ fsm[11] = "OrderStates:confirm"
    /\ ProductGone(1)
    /\ ProductGone(11)

----------------------------------------------------------------------------
(* A shared location in the address step *)

(* the address the confirmation must hold for an answer of the service *)
ExpectedAddress(answer) ==
    IF ~answer.raises /\ answer.display_name # NoText
    THEN answer.display_name ELSE PLACEHOLDER

LocationConfirmed(c, answer, location) ==
    /\ fsm'[c] = "OrderStates:confirm"
    /\ Has(data'[c], "address")
    /\ data'[c].address # NoText
    /\ data'[c].address = ExpectedAddress(answer)
    /\ data'[c].latitude = location.latitude
    /\ data'[c].longitude = location.longitude
    /\ data'[c].product_id = data[c].product_id
    /\ data'[c].quantity = data[c].quantity

(* C31 as stated: a location shared in the address step always moves the
   flow to the confirmation step with a non-empty address and the shared
   coordinates, whatever the lookup answers *)
C31_LocationAlwaysConfirms ==
    [][\A c \in FlowUsers, a \in GeocodeAnswers, l \in Locations :
          (fsm[c] = "OrderStates:address" /\ order_address_location(c, a, l))
          => LocationConfirmed(c, a, l)]_vars

(* C31, amended: while the user's row and the product of the order exist, a
   location shared in the address step moves the flow to the confirmation
   step with the reverse-geocoded text, or the placeholder when the lookup
   gives no text or raises, and with the shared coordinates; when the user or
   the product is missing the flow is cleared *)
C31_LocationConfirmsWhileProductExists ==
    [][\A c \in FlowUsers, a \in GeocodeAnswers, l \in Locations :
          (fsm[c] = "OrderStates:address" /\ order_address_location(c, a, l))
          => IF get_user_by_tg_id(c) # {} /\ get_product(data[c].product_id) # {}
             THEN LocationConfirmed(c, a, l)
             ELSE fsm'[c] = "idle" /\ data'[c] = EmptyData]_vars

C31_Witness ==
    /\ fsm[11] = "OrderStates:confirm"
    /\ Has(data[11], "latitude")
    /\ data[11].address = PLACEHOLDER
    /\ data[11].latitude = 41
    /\ data[11].longitude = 69

----------------------------------------------------------------------------
(* The first event of a chat that has no users row *)

(* C32: the first event handled from a chat without a users row (/start, a
   shared contact, a button of the order flow, a text) leaves a users row
   with that chat's tg_id behind *)
C32_FirstContactCreatesUser ==
    [][\A c \in FlowChats :
          (/\ get_user_by_tg_id(c) = {}
           /\ \/ start(c)
              \/ \E t \in ContactTexts : handle_contact(c, t)
              \/ \E p \in DOMAIN products : order_start(c, p)
              \/ \E t \in QuantityTexts : order_quantity(c, t))
          => get_user_by_tg_id(c)' # {}]_vars

----------------------------------------------------------------------------
(* Walk-in customers: admins create manual users, several within the same
   millisecond, while chats register with /start *)

MaxManual == 6

(* add_manual_user: RuntimeError when the five candidate ids are taken *)
add_manual_user(phone, admin_id) ==
    /\ booted
    /\ Cardinality(DOMAIN users) < Cardinality(DOMAIN InitUsers) + MaxManual
    /\ LET tg_id == ManualTgId(now, admin_id)
       IN  users' = IF tg_id = 0 THEN users
                    ELSE users @@ (LastRowId(DOMAIN users) :> ManualUser(tg_id, phone))
    /\ UNCHANGED <<fsm, data, products, orders, Rest>>

NextManual ==
    \/ Tick
    \/ \E c \in FlowChats : start(c)
    \/ \E a \in ADMIN_LIST, p \in ContactTexts : add_manual_user(p, a)

SpecManual == InitCreate /\ [][NextManual]_vars

TgIds == {users[u].tg_id : u \in DOMAIN users}

(* C33: a row inserted by add_manual_user has a negative tg_id that no other
   row holds, a row inserted for a chat has that chat's positive id, and no
   two users rows ever share a tg_id *)
C33_ManualIdsNegativeAndUnique ==
    /\ [][\A a \in ADMIN_LIST, p \in ContactTexts :
             (add_manual_user(p, a) /\ users' # users) =>
                 \E u \in DOMAIN users' \ DOMAIN users :
                     /\ users'[u].tg_id < 0
                     /\ users'[u].tg_id \notin TgIds
                     /\ users'[u].tg_id \notin ChatIds
                     /\ \A v \in DOMAIN users : users'[v] = users[v]]_vars
    /\ [](\A u, v \in DOMAIN users : users[u].tg_id = users[v].tg_id => u = v)

(* six manual users of one millisecond: the two admins' candidate ids
   overlap, and the sixth id is the last one left *)
C33_Witness ==
    /\ Cardinality({u \in DOMAIN users : users[u].tg_id < 0}) = 6
    /\ \A u \in DOMAIN users : users[u].tg_id < 0 => users[u].tg_id > 0 - 1000007
    /\ \E u \in DOMAIN users : users[u].tg_id = 1

----------------------------------------------------------------------------
(* The activity counter *)

(* C34: no step lowers a user's activity_count, and a private-chat message
   of an existing user who is not blocked raises that user's count by
   exactly 1 and no other user's, however many messages of the user are
   being handled *)
C34_ActivityCountMonotonic ==
    /\ [][\A u \in DOMAIN users :
             users'[u].activity_count >= users[u].activity_count]_vars
    /\ [][\A c \in FlowUsers :
             (get_user_by_tg_id(c) # {} /\ ~is_user_blocked(c) /\ ActivityMiddleware(c))
             => \A u \in DOMAIN users :
                    users'[u].activity_count
                        = users[u].activity_count + (IF users[u].tg_id = c THEN 1 ELSE 0)]_vars

(* two messages of user 11 counted while the user's order flow is open *)
C34_Witness ==
    /\ ~is_user_blocked(11)
    /\ fsm[11] = "OrderStates:quantity"
    /\ \E u \in get_user_by_tg_id(11) :
           users[u].activity_count = 2 /\ users[u].last_active = 2

----------------------------------------------------------------------------
(* The fields of an order row: the database file may hold an order canceled
   under an earlier schema, by its user or by an admin; users and admins
   create orders, and orders are closed and canceled *)

LegacyAdminCanceled == [LegacyOrder EXCEPT !.closed_at = 1, !.closed_by = 1]

InitFields ==
    /\ booted = FALSE
    /\ users = InitUsers
    /\ products = InitProducts
    /\ orders \in {[o \in {} |-> LegacyOrder], [o \in {1} |-> LegacyOrder],
                   [o \in {1} |-> LegacyAdminCanceled]}
    /\ InitProcess

NextFields ==
    \/ main
    \/ \E c \in FlowUsers, p \in DOMAIN products : Opens(c) /\ order_start(c, p)
    \/ \E c \in FlowUsers, t \in QuantityTexts : order_quantity(c, t)
    \/ \E c \in FlowUsers, t \in AddressTexts : order_address(c, t)
    \/ \E c \in FlowUsers : confirm_order(c)
    \/ \E c \in FlowAdmins : Opens(c) /\ start_admin_order(c)
    \/ \E c \in FlowAdmins, t \in PhoneTexts : admin_order_phone(c, t)
    \/ \E c \in FlowAdmins, t \in NameTexts : admin_order_name(c, t)
    \/ \E c \in FlowAdmins, t \in AddressTexts : admin_order_address(c, t)
    \/ \E c \in FlowAdmins, p \in DOMAIN products : admin_order_product(c, p)
    \/ \E c \in FlowAdmins, t \in QuantityTexts : admin_order_quantity(c, t)
    \/ \E c \in FlowAdmins : confirm_admin_order(c)
    \/ \E c \in FlowAdmins, o \in OrderIds : close_order_status(c, o)
    \/ \E c \in FlowAdmins, o \in OrderIds : cancel_order_status(c, o)
    \/ \E c \in FlowAdmins : update_order_status(c)
    \/ \E c \in FlowUsers, o \in OrderIds : confirm_user_cancel_order(c, o)
    \/ \E c \in FlowUsers : cancel_order_by_user(c)

SpecFields == InitFields /\ [][NextFields]_vars

(* the fields that go with a status, without the timestamps *)
RoleConsistent(row) ==
    /\ row.status = "open" =>
           /\ row.closed_at = NoTime
           /\ row.closed_by = NoId
           /\ row.canceled_by_role = NULL
    /\ row.status = "closed" => row.canceled_by_role = NULL
    /\ row.status = "canceled" =>
           /\ row.canceled_by_role = "user" <=> row.closed_by = NoId
           /\ row.canceled_by_role = "admin" <=> row.closed_by # NoId

FieldsConsistent(row) ==
    /\ RoleConsistent(row)
    /\ row.status = "closed" => row.closed_at # NoTime /\ row.closed_by # NoId
    /\ row.status = "canceled" => row.closed_at # NoTime

(* C35 as stated: once the program runs, every order row has the fields of
   its status: all three unset when open, closed_at and closed_by set and no
   role when closed, closed_at set and the role matching closed_by when
   canceled *)
C35_OrderFieldsConsistent ==
    booted => \A o \in DOMAIN orders : FieldsConsistent(orders[o])

(* C35, amended: every order the program inserts, and every order whose
   status it changes, has all the fields of its status; an order that ended
   under an earlier schema has the role that matches its closed_by, and no
   more *)
C35_WrittenOrdersConsistent ==
    /\ [](booted => \A o \in DOMAIN orders : RoleConsistent(orders[o]))
    /\ [][\A o \in DOMAIN orders' :
             (o \in DOMAIN orders => orders'[o].status # orders[o].status)
             => FieldsConsistent(orders'[o])]_vars

C35_Witness ==
    /\ booted
    /\ \E o \in DOMAIN orders :
           /\ orders[o].status = "canceled"
           /\ orders[o].canceled_by_role = "admin"
           /\ orders[o].order_price_per_kg = 1000
           /\ orders[o].closed_by = 1

----------------------------------------------------------------------------
(* The confirm tap, handler by handler: every callback order_confirm starts a
   task of confirm_order, and the tasks of one chat take turns at their
   awaits: the edit of the reply markup, and the answer and the admin
   notifications that precede state.clear() *)

MaxTaps == 2

(* confirm_order up to await callback.message.edit_reply_markup *)
confirm_order_check(c) ==
    /\ Reaches(c)
    /\ tasks[c].editing + tasks[c].notifying < MaxTaps
    /\ tasks' = IF fsm[c] = "OrderStates:confirm"
                THEN [tasks EXCEPT ![c].editing = @ + 1]
                ELSE tasks
    /\ UNCHANGED <<booted, now, users, products, orders, fsm, data, call, last,
                   succeeded, media_group_buffer, prompts, delivered>>

(* finalize_order up to await notify_admins_new_order, after the edit of the
   reply markup returned (edited) or raised; data["product_id"] raises
   KeyError when the scratch data was cleared meanwhile *)
finalize_order(c, edited) ==
    /\ booted
    /\ tasks[c].editing > 0
    /\ IF ~edited \/ (get_user_by_tg_id(c) # {} /\ ~Has(data[c], "product_id"))
       THEN /\ tasks' = [tasks EXCEPT ![c].editing = @ - 1]
            /\ UNCHANGED <<fsm, data, orders>>
       ELSE IF \/ get_user_by_tg_id(c) = {}
               \/ get_product(data[c].product_id) = {}
               \/ data[c].address = NoText
       THEN /\ tasks' = [tasks EXCEPT ![c].editing = @ - 1]
            /\ Clear(c)
            /\ UNCHANGED orders
       ELSE /\ Cardinality(DOMAIN orders) < MaxTaps
            /\ orders' = orders @@
                  (LastRowId(DOMAIN orders) :>
                      OpenOrder(First(get_user_by_tg_id(c)), data[c].product_id,
                                data[c].quantity,
                                ProductPrice(data[c].product_id), now))
            /\ tasks' = [tasks EXCEPT ![c].editing = @ - 1, ![c].notifying = @ + 1]
            /\ UNCHANGED <<fsm, data>>
    /\ UNCHANGED <<booted, now, users, products, call, last, succeeded,
                   media_group_buffer, prompts, delivered>>

(* finalize_order: state.clear(), after the notifications *)
finalize_order_clear(c) ==
    /\ booted
    /\ tasks[c].notifying > 0
    /\ tasks' = [tasks EXCEPT ![c].notifying = @ - 1]
    /\ Clear(c)
    /\ UNCHANGED <<booted, now, users, products, orders, call, last, succeeded,
                   media_group_buffer, prompts, delivered>>

(* order_address with the message send_order_confirmation answers: the line
   of the per-kilogram price is format_price(product["price_per_kg"]) *)
order_address_answer(c, text) ==
    /\ Reaches(c)
    /\ fsm[c] = "OrderStates:address"
    /\ IF is_cancel_message(text) THEN Clear(c)
       ELSE send_order_confirmation(c, Put(data[c], [address |-> text]))
    /\ IF fsm'[c] = "OrderStates:confirm"
       THEN Answer("send_order_confirmation", c, NoReturn,
                   format_price(ProductPrice(data[c].product_id)))
       ELSE UNCHANGED last
    /\ UNCHANGED <<booted, now, users, products, orders, call, succeeded, Broadcasts>>

(* a user who places one order (the flow is opened while no order exists),
   and an admin who edits the price *)
NextTap ==
    \/ \E c \in FlowUsers, p \in DOMAIN products :
           Opens(c) /\ DOMAIN orders = {} /\ order_start(c, p)
    \/ \E c \in FlowUsers, t \in QuantityTexts : order_quantity(c, t)
    \/ \E c \in FlowUsers, t \in AddressTexts : order_address_answer(c, t)
    \/ \E c \in FlowAdmins, p \in DOMAIN products : Opens(c) /\ edit_product_start(c, p)
    \/ \E c \in FlowAdmins : edit_product_field(c, "price")
    \/ \E c \in FlowAdmins, t \in PriceTexts : edit_product_value(c, t)
    \/ \E c \in FlowUsers : confirm_order_check(c)
    \/ \E c \in FlowUsers, edited \in BOOLEAN : finalize_order(c, edited)
    \/ \E c \in FlowUsers : finalize_order_clear(c)

SpecTap == InitCreate /\ [][NextTap]_vars

(* C36: the one pass through the order flow that this user makes inserts at
   most one order, however many times order_confirm is delivered *)
C36_OnePassOneOrder == Cardinality(DOMAIN orders) <= 1

(* C37: the price frozen on an inserted order is the per-kilogram price of
   the confirmation message the user approved, the last one sent to the chat *)
C37_FrozenPriceIsShownPrice ==
    [][\A c \in FlowUsers :
          (finalize_order(c, TRUE) /\ DOMAIN orders' # DOMAIN orders) =>
              /\ last.op = "send_order_confirmation"
              /\ last.chat = c
              /\ \A o \in DOMAIN orders' \ DOMAIN orders :
                     format_price(orders'[o].order_price_per_kg) = last.text]_vars

----------------------------------------------------------------------------
(* The finalize task and the FSM state *)

(* C38: a finalize task that runs while the admin is no longer in
   BroadcastStates.content changes neither the admin's FSM state nor the
   scratch data *)
C38_TimerOnlyFromContent ==
    [][\A c \in FlowAdmins :
          (/\ fsm[c] # "BroadcastStates:content"
           /\ \/ handle_media_group_timeout(c)
              \/ handle_media_group_timeout_prompt(c))
          => fsm'[c] = fsm[c] /\ data'[c] = data[c]]_vars

----------------------------------------------------------------------------
(* Blocking: an admin blocks and unblocks by phone, the phones of two users
   and of another admin among them, while that admin and a user send events *)

BlockPhones == {<<"9", "0", "1">>, <<"9", "0", "2">>, AdminPhone, <<"7", "7">>}

NextBlock ==
    \/ \E c \in FlowAdmins : Opens(c) /\ block_users_menu(c)
    \/ \E c \in FlowAdmins, text \in {BTN_BLOCK, BTN_UNBLOCK, BTN_CANCEL} :
           block_users_choose_action(c, text)
    \/ \E c \in FlowAdmins, text \in BlockPhones : block_users_apply(c, text)
    \/ \E c \in ChatIds \ FlowAdmins : blocked_event(c)
    \/ \E c \in ChatIds \ FlowAdmins, p \in DOMAIN products : Opens(c) /\ order_start(c, p)
    \/ \E c \in ChatIds \ FlowAdmins, text \in QuantityTexts : order_quantity(c, text)

SpecBlock == InitValidate /\ [][NextBlock]_vars

(* the users row a phone names is found and the step would not change it *)
NothingToDo(c, text) ==
    \E u \in find_user_by_phone(text) :
        /\ u = First(find_user_by_phone(text))
        /\ Has(data[c], "block_action")
        /\ users[u].is_blocked <=> data[c].block_action = "block"

(* C39: no step sets is_blocked on the users row of an admin; the events of
   an admin always pass BlockedUserMiddleware; and blocking a blocked user,
   or unblocking a user who is not blocked, leaves the users table as it is *)
C39_AdminsAreNeverBlocked ==
    /\ [][\A u \in DOMAIN users :
             (users[u].tg_id \in ADMIN_LIST /\ u \in DOMAIN users')
             => (users'[u].is_blocked => users[u].is_blocked)]_vars
    /\ [](\A a \in ADMIN_LIST :
             /\ BlockedUserMiddleware(a)
             /\ \A u \in get_user_by_tg_id(a) : ~users[u].is_blocked)
    /\ [][\A c \in FlowAdmins, text \in BlockPhones :
             (NothingToDo(c, text) /\ block_users_apply(c, text)) => users' = users]_vars

(* user 11 is blocked, and the admin is about to name a phone to block: the
   row of admin 2 is there to be named, and so is the blocked user's *)
C39_Witness ==
    /\ fsm[1] = "BlockUserStates:phone"
    /\ data[1].block_action = "block"
    /\ is_user_blocked(11)
    /\ NothingToDo(1, <<"9", "0", "1">>)
    /\ \E u \in get_user_by_tg_id(2) : users[u].phone = AdminPhone /\ ~users[u].is_blocked
    /\ fsm[2] = "OrderStates:address"

----------------------------------------------------------------------------
(* Edits of a deleted product *)

(* C40: a product-edit step (edit_product_value) leaves the row of every
   deleted product as it is *)
C40_DeletedProductIsNotEdited ==
    [][\A c \in FlowAdmins, t \in PriceTexts, p \in DOMAIN products :
          (products[p].is_deleted /\ edit_product_value(c, t))
          => products'[p] = products[p]]_vars

====
